---------------------------- MODULE Spec2Model ----------------------------
(***************************************************************************)
(* A model of strict_fsh.py: the wildcard rule language (validation,       *)
(* matching, merge and deduct) and the directory walker that selects the   *)
(* paths of a tree with it.                                                *)
(*                                                                         *)
(* A Python str is modelled as the sequence of its characters, so that     *)
(* slicing, startswith, endswith, os.path.dirname and os.path.join are     *)
(* computed the way the library computes them.                             *)
(***************************************************************************)
EXTENDS Integers, Sequences, FiniteSets, TLC

VARIABLES
    wildcards1,   \* first rule list handed to the module-level functions
    wildcards2,   \* second rule list (merge_wildcards, deduct_wildcards)
    name,         \* the path handed to wildcards_match
    op,           \* the operation applied last
    ret,          \* what that operation returned or raised
    tree,         \* the audited tree: root-relative path -> entry
    listRev,      \* the order os.listdir reports the entries of a directory in
    dirPrefix,    \* RootFs._dirPrefix
    listed,       \* the directories the walker called os.listdir on, in order
    names,        \* the list of paths handed to wildcards_filter
    fs,           \* the live file system: absolute path -> what lstat finds there
    fields,       \* the session attributes set on the RootFs / PreMountRootFs object
    bAutoFix,     \* the value of _bAutoFix
    record,       \* the value of _record: the root-relative paths claimed so far
    errs,         \* the messages handed to _errCb, in order
    invoked,      \* the call being made: a primitive with its arguments, or a session
    pc            \* how far the call has come

vars == <<wildcards1, wildcards2, name, op, ret, tree, listRev, dirPrefix, listed,
          names, fs, fields, bAutoFix, record, errs, invoked, pc>>

globVars == <<tree, listRev, dirPrefix, listed>>

chkVars == <<fs, fields, bAutoFix, record, errs, invoked, pc>>

---------------------------------------------------------------------------
(* Bounds of the model *)

\* longest rule list drawn as wildcards1
MaxRules == 2
\* longest rule list drawn as wildcards2
MaxRules2 == 1
\* longest rule path of the exhaustively enumerated rule texts
MaxTextLen == 5
\* most entries of an audited tree
MaxEntries == 3

---------------------------------------------------------------------------
(* Python str and os.path *)

\* s.startswith(pre)
StartsWith(s, pre) ==
    /\ Len(pre) <= Len(s)
    /\ SubSeq(s, 1, Len(pre)) = pre

\* s.endswith(suf)
EndsWith(s, suf) ==
    /\ Len(suf) <= Len(s)
    /\ SubSeq(s, Len(s) - Len(suf) + 1, Len(s)) = suf

\* c in s
Contains(s, c) == \E i \in 1..Len(s) : s[i] = c

\* s[k:] with a 0-based k
SliceFrom(s, k) == SubSeq(s, k + 1, Len(s))

\* s[:k]
SliceTo(s, k) == SubSeq(s, 1, IF k < Len(s) THEN k ELSE Len(s))

\* s.rfind("/") + 1: the length of the part up to and including the last slash
RECURSIVE LastSlash(_, _)
LastSlash(s, i) ==
    IF i = 0 THEN 0
    ELSE IF s[i] = "/" THEN i
    ELSE LastSlash(s, i - 1)

\* s.rstrip("/")
RECURSIVE RStripSlash(_)
RStripSlash(s) ==
    IF Len(s) > 0 /\ s[Len(s)] = "/" THEN RStripSlash(SubSeq(s, 1, Len(s) - 1))
    ELSE s

\* posixpath.dirname(p)
dirname(p) ==
    LET head == SubSeq(p, 1, LastSlash(p, Len(p)))
    IN  IF head # <<>> /\ (\E i \in 1..Len(head) : head[i] # "/")
        THEN RStripSlash(head)
        ELSE head

\* posixpath.join(a, b)
PathJoin(a, b) ==
    IF StartsWith(b, <<"/">>) THEN b
    ELSE IF a = <<>> \/ EndsWith(a, <<"/">>) THEN a \o b
    ELSE a \o <<"/">> \o b

pathAddSlash(path) ==
    IF path = <<"/">> THEN path ELSE path \o <<"/">>

---------------------------------------------------------------------------
(* _HelperWildcard *)

Plus == <<"+", " ">>
Minus == <<"-", " ">>
Stars2 == <<"/", "*", "*">>
Stars3 == <<"/", "*", "*", "*">>

is_pattern_inc_or_exc(wildcard) == StartsWith(wildcard, Plus)

\* what check_patterns does with one rule: TRUE when it raises WildcardError
RuleRaises(w) ==
    \/ ~StartsWith(w, Plus) /\ ~StartsWith(w, Minus)
    \/ Len(w) < 3 \/ w[3] # "/"
    \/ Contains(w, "*") /\ ~EndsWith(w, Stars3) /\ ~EndsWith(w, Stars2)

\* check_patterns(wildcards): TRUE when it returns, FALSE when it raises
check_patterns(wildcards) ==
    \A i \in 1..Len(wildcards) : ~RuleRaises(wildcards[i])

match_pattern(nm, wildcard) ==
    LET p == SliceFrom(wildcard, 2)
        d == dirname(p)
    IN  IF EndsWith(p, Stars3)
        THEN nm = d \/ StartsWith(nm, pathAddSlash(d))
        ELSE IF EndsWith(p, Stars2)
        THEN StartsWith(nm, pathAddSlash(d))
        ELSE nm = p

---------------------------------------------------------------------------
(* Results: a returned value or the exception raised *)

Returned(v) == [status |-> "ok", value |-> v]
Raised(e) == [status |-> e, value |-> <<>>]

---------------------------------------------------------------------------
(* Module-level functions *)

\* assert statements are executed (the interpreter's default mode)
merge_wildcards(w1, w2) ==
    IF \A i \in 1..Len(w1) : is_pattern_inc_or_exc(w1[i])
    THEN Returned(w1 \o w2)
    ELSE Raised("AssertionError")

\* the mirrored exclusions placed after the first list instead of before it
deduct_wildcards_after(w1, w2) ==
    IF \A i \in 1..Len(w2) : is_pattern_inc_or_exc(w2[i])
    THEN Returned(w1 \o [i \in 1..Len(w2) |-> Minus \o SliceFrom(w2[i], 2)])
    ELSE Raised("AssertionError")

deduct_wildcards(w1, w2) ==
    IF \A i \in 1..Len(w2) : is_pattern_inc_or_exc(w2[i])
    THEN Returned([i \in 1..Len(w2) |-> Minus \o SliceFrom(w2[i], 2)] \o w1)
    ELSE Raised("AssertionError")

\* the loop without its return at the first match: the last matching rule decides
RECURSIVE MatchLoopLast(_, _, _)
MatchLoopLast(nm, wildcards, i) ==
    IF i > Len(wildcards) THEN FALSE
    ELSE IF \E j \in (i + 1)..Len(wildcards) : match_pattern(nm, wildcards[j])
    THEN MatchLoopLast(nm, wildcards, i + 1)
    ELSE match_pattern(nm, wildcards[i]) /\ is_pattern_inc_or_exc(wildcards[i])

\* the for loop of wildcards_match, from rule i on
RECURSIVE MatchLoop(_, _, _)
MatchLoop(nm, wildcards, i) ==
    IF i > Len(wildcards) THEN FALSE
    ELSE IF match_pattern(nm, wildcards[i]) THEN is_pattern_inc_or_exc(wildcards[i])
    ELSE MatchLoop(nm, wildcards, i + 1)

wildcards_match(nm, wildcards) ==
    IF ~check_patterns(wildcards) THEN Raised("WildcardError")
    ELSE Returned(MatchLoop(nm, wildcards, 1))

\* the inner loop of wildcards_filter for one name, from rule i on: the name
\* is appended at every inclusion rule that matches it, and the loop ends at
\* the first exclusion rule that matches it
RECURSIVE FilterLoop(_, _, _, _)
FilterLoop(nm, wildcards, i, result) ==
    IF i > Len(wildcards) THEN result
    ELSE IF match_pattern(nm, wildcards[i])
    THEN IF is_pattern_inc_or_exc(wildcards[i])
         THEN FilterLoop(nm, wildcards, i + 1, Append(result, nm))
         ELSE result
    ELSE FilterLoop(nm, wildcards, i + 1, result)

\* the outer loop of wildcards_filter, from name k on
RECURSIVE FilterNames(_, _, _, _)
FilterNames(nms, wildcards, k, result) ==
    IF k > Len(nms) THEN result
    ELSE FilterNames(nms, wildcards, k + 1, FilterLoop(nms[k], wildcards, 1, result))

wildcards_filter(nms, wildcards) ==
    IF ~check_patterns(wildcards) THEN Raised("WildcardError")
    ELSE Returned(FilterNames(nms, wildcards, 1, <<>>))

---------------------------------------------------------------------------
(* The file system the walker reads: the audited tree, mounted at dirPrefix *)

\* the segments of a path: the non-empty runs between slashes
RECURSIVE Segments(_)
Segments(p) ==
    IF p = <<>> THEN <<>>
    ELSE LET k == LastSlash(p, Len(p))
             last == SliceFrom(p, k)
             front == SubSeq(p, 1, IF k = 0 THEN 0 ELSE k - 1)
         IN  IF last = <<>> THEN Segments(front) ELSE Append(Segments(front), last)

RECURSIVE FromSegments(_)
FromSegments(segs) ==
    IF segs = <<>> THEN <<>>
    ELSE FromSegments(SubSeq(segs, 1, Len(segs) - 1)) \o <<"/">> \o segs[Len(segs)]

\* the path the kernel resolves a path text to: repeated and trailing slashes dropped
Normalize(p) ==
    IF /\ p # <<>>
       /\ p[1] = "/"
       /\ p[Len(p)] # "/"
       /\ \A i \in 1..(Len(p) - 1) : p[i] # "/" \/ p[i + 1] # "/"
    THEN p
    ELSE IF Segments(p) = <<>> THEN <<"/">> ELSE FromSegments(Segments(p))

\* the root-relative path of a full path, with the audited tree mounted at the
\* directory pre names; <<>> for a path outside the tree
ToRel(pre, full) ==
    LET n == Normalize(full)
        mount == Normalize(pre)
    IN  IF mount = <<"/">> THEN n
        ELSE IF n = mount THEN <<"/">>
        ELSE IF StartsWith(n, mount \o <<"/">>) THEN SliceFrom(n, Len(mount))
        ELSE <<>>

\* what lstat finds at a root-relative path
RelKind(rel) ==
    IF rel = <<"/">> THEN "dir"
    ELSE IF rel \in DOMAIN tree THEN tree[rel]
    ELSE "absent"

\* every symbolic link of the tree has this relative target
LinkTarget == <<"a">>

\* the root-relative path a path resolves to, one symbolic link followed
Resolve(rel) ==
    IF RelKind(rel) = "link" THEN PathJoin(dirname(rel), LinkTarget) ELSE rel

\* what stat finds: a link to a link (or to itself) does not resolve
StatKind(rel) ==
    IF RelKind(Resolve(rel)) = "link" THEN "absent" ELSE RelKind(Resolve(rel))

\* os.path.islink(path)
islink(pre, path) == ToRel(pre, path) # <<>> /\ RelKind(ToRel(pre, path)) = "link"

\* os.path.isdir(path): follows a symbolic link
isdir(pre, path) == ToRel(pre, path) # <<>> /\ StatKind(ToRel(pre, path)) = "dir"

\* the last segment of a path
basename(p) == SliceFrom(p, LastSlash(p, Len(p)))

\* the characters of entry names, in the order names are listed by
Alphabet ==
    << "-", ".", "0", "1", "2", "3", "4", "5", "6", "7", "8", "9", "_",
       "a", "b", "c", "d", "e", "f", "g", "h", "i", "j", "k", "l", "m",
       "n", "o", "p", "q", "r", "s", "t", "u", "v", "w", "x", "y", "z" >>

CharRank(c) == CHOOSE i \in 1..Len(Alphabet) : Alphabet[i] = c

\* a sorts before b
RECURSIVE NameLess(_, _)
NameLess(a, b) ==
    IF a = <<>> THEN b # <<>>
    ELSE IF b = <<>> THEN FALSE
    ELSE IF a[1] = b[1] THEN NameLess(Tail(a), Tail(b))
    ELSE CharRank(a[1]) < CharRank(b[1])

\* the names of S in sorted order
RECURSIVE SortNames(_)
SortNames(S) ==
    IF S = {} THEN <<>>
    ELSE LET least == CHOOSE x \in S : \A y \in S \ {x} : NameLess(x, y)
         IN  <<least>> \o SortNames(S \ {least})

\* every entry name, in the order a directory reports its entries when listRev is FALSE
NameOrder ==
    << <<"a">>, <<"a", "b">>, <<"b", "i", "n">>, <<"f", "o", "o">>,
       <<"l", "i", "b">>, <<"s", "r", "c">>, <<"u", "s", "r">> >>

RECURSIVE Reverse(_)
Reverse(q) == IF q = <<>> THEN <<>> ELSE Append(Reverse(Tail(q)), Head(q))

NameOrderRev == Reverse(NameOrder)

\* os.listdir(path): the entry names of the directory path resolves to
listdir(pre, path) ==
    LET d == Resolve(ToRel(pre, path))
        present(n) == PathJoin(d, n) \in DOMAIN tree
    IN  SelectSeq(IF listRev THEN NameOrderRev ELSE NameOrder, present)

---------------------------------------------------------------------------
(* RootFs.wildcards_glob *)

\* the test that lets the walker treat curPath as a directory to scan
IsRealDirFollowingLinks(self, curPath) == isdir(self, curPath)

IsRealDir(self, curPath) == isdir(self, curPath) /\ ~islink(self, curPath)

IsRecursiveRule(w) == EndsWith(w, Stars3) \/ EndsWith(w, Stars2)

\* a rule of either sign whose path begins with curPath and a slash
LeadsBeneathAnySign(curPath, w) ==
    StartsWith(SliceFrom(w, 2), pathAddSlash(curPath))

\* an inclusion rule whose path begins with curPath and a slash
LeadsBeneath(curPath, w) ==
    is_pattern_inc_or_exc(w) /\ StartsWith(SliceFrom(w, 2), pathAddSlash(curPath))

\* the directory loop appending curPath at every matching inclusion rule
RECURSIVE ScanDirNoGuard(_, _, _, _)
ScanDirNoGuard(curPath, wildcards, i, st) ==
    IF i > Len(wildcards) THEN st
    ELSE LET w == wildcards[i]
         IN  IF match_pattern(curPath, w)
             THEN IF is_pattern_inc_or_exc(w)
                  THEN LET st1 == [st EXCEPT !.result = Append(@, curPath), !.bRecorded = TRUE]
                       IN  IF IsRecursiveRule(w)
                           THEN [st1 EXCEPT !.bRecursive = TRUE]
                           ELSE ScanDirNoGuard(curPath, wildcards, i + 1, st1)
                  ELSE LET st1 == [st EXCEPT !.bRecorded = TRUE]
                       IN  IF IsRecursiveRule(w)
                           THEN st1
                           ELSE ScanDirNoGuard(curPath, wildcards, i + 1, st1)
             ELSE IF LeadsBeneath(curPath, w)
                  THEN LET st1 == [st EXCEPT !.bRecursive = TRUE]
                       IN  IF st1.bRecorded
                           THEN st1
                           ELSE ScanDirNoGuard(curPath, wildcards, i + 1, st1)
                  ELSE ScanDirNoGuard(curPath, wildcards, i + 1, st)

\* the for loop over the rules for a real directory, from rule i on;
\* st holds bRecorded, bRecursive and the result list; a break returns st
RECURSIVE ScanDir(_, _, _, _)
ScanDir(curPath, wildcards, i, st) ==
    IF i > Len(wildcards) THEN st
    ELSE LET w == wildcards[i]
         IN  IF match_pattern(curPath, w)
             THEN IF is_pattern_inc_or_exc(w)
                  THEN LET st1 == IF ~st.bRecorded
                                  THEN [st EXCEPT !.result = Append(@, curPath),
                                                  !.bRecorded = TRUE]
                                  ELSE st
                       IN  IF IsRecursiveRule(w)
                           THEN [st1 EXCEPT !.bRecursive = TRUE]
                           ELSE ScanDir(curPath, wildcards, i + 1, st1)
                  ELSE LET st1 == [st EXCEPT !.bRecorded = TRUE]
                       IN  IF IsRecursiveRule(w)
                           THEN st1
                           ELSE ScanDir(curPath, wildcards, i + 1, st1)
             ELSE IF LeadsBeneath(curPath, w)
                  THEN LET st1 == [st EXCEPT !.bRecursive = TRUE]
                       IN  IF st1.bRecorded
                           THEN st1
                           ELSE ScanDir(curPath, wildcards, i + 1, st1)
                  ELSE ScanDir(curPath, wildcards, i + 1, st)

\* the leaf loop without its return at the first match: the last matching rule decides
RECURSIVE ScanLeafLast(_, _, _, _)
ScanLeafLast(curPath, wildcards, i, res) ==
    IF i > Len(wildcards) THEN res
    ELSE IF \E j \in (i + 1)..Len(wildcards) : match_pattern(curPath, wildcards[j])
    THEN ScanLeafLast(curPath, wildcards, i + 1, res)
    ELSE IF match_pattern(curPath, wildcards[i]) /\ is_pattern_inc_or_exc(wildcards[i])
    THEN Append(res, curPath)
    ELSE res

\* the for loop over the rules for anything else, from rule i on
RECURSIVE ScanLeaf(_, _, _, _)
ScanLeaf(curPath, wildcards, i, res) ==
    IF i > Len(wildcards) THEN res
    ELSE IF match_pattern(curPath, wildcards[i])
    THEN IF is_pattern_inc_or_exc(wildcards[i]) THEN Append(res, curPath) ELSE res
    ELSE ScanLeaf(curPath, wildcards, i + 1, res)

\* _wildcardsGlobImpl(self, curPath, wildcards, result): self is the root prefix
\* of the RootFs, where the audited tree is mounted; acc holds the result list
\* and the directories listed so far
RECURSIVE wildcardsGlobImpl(_, _, _, _)
RECURSIVE GlobChildren(_, _, _, _, _)
wildcardsGlobImpl(self, curPath, wildcards, acc) ==
    IF IsRealDir(self, curPath)
    THEN LET st == ScanDir(curPath, wildcards, 1,
                           [bRecorded |-> FALSE, bRecursive |-> FALSE, result |-> acc.result])
         IN  IF st.bRecursive
             THEN GlobChildren(self, curPath, listdir(self, curPath), wildcards,
                               [result |-> st.result, listed |-> Append(acc.listed, curPath)])
             ELSE [result |-> st.result, listed |-> acc.listed]
    ELSE [result |-> ScanLeaf(curPath, wildcards, 1, acc.result), listed |-> acc.listed]

\* the loop over os.listdir(curPath)
GlobChildren(self, curPath, fns, wildcards, acc) ==
    IF fns = <<>> THEN acc
    ELSE GlobChildren(self, curPath, Tail(fns), wildcards,
                      wildcardsGlobImpl(self, PathJoin(curPath, Head(fns)), wildcards, acc))

\* _wildcardsGlob(wildcards): the walk, before its paths are made root-relative
GlobWalk(self, wildcards) ==
    LET wildcardsP == [i \in 1..Len(wildcards) |->
                          SliceTo(wildcards[i], 2) \o PathJoin(self, SliceFrom(wildcards[i], 3))]
    IN  wildcardsGlobImpl(self, self, wildcardsP, [result |-> <<>>, listed |-> <<>>])

\* _wildcardsGlob(wildcards): the returned list, made from the walk's list
wildcardsGlob(self, walked) ==
    [i \in 1..Len(walked) |-> <<"/">> \o SliceFrom(walked[i], Len(self))]

\* wildcards_glob(wildcards): what it returns or raises, and the directories it listed
wildcards_glob(self, wildcards) ==
    IF ~check_patterns(wildcards)
    THEN [ret |-> Raised("WildcardError"), listed |-> <<>>]
    ELSE LET walk == GlobWalk(self, wildcards)
         IN  [ret |-> Returned(wildcardsGlob(self, walk.result)), listed |-> walk.listed]

---------------------------------------------------------------------------
(* The inputs the model draws from *)

A == <<"a">>
AB == <<"a", "b">>
Root == <<"/">>

\* the path /x, /x/y, /x/y/z of the given segments
P1(x) == <<"/">> \o x
P2(x, y) == P1(x) \o P1(y)
P3(x, y, z) == P2(x, y) \o P1(z)

\* normalized absolute paths a caller asks about, and a walk can meet
Paths == {Root, P1(A), P1(AB), P2(A, A), P2(A, AB), P3(A, A, A)}

\* rule paths: exact, contents ("/**") and self-and-contents ("/***") forms
Patterns ==
    { Root, Stars2, Stars3,
      P1(A), P1(A) \o Stars2, P1(A) \o Stars3,
      P2(A, A), P1(AB) \o Stars3 }

\* well-formed rules
WildPool == {s \o p : s \in {Plus, Minus}, p \in Patterns}

\* the rules the second list is drawn from
WildPool2 == {Plus \o P1(A), Plus \o P1(A) \o Stars2, Plus \o Stars3, Minus \o P2(A, A)}

\* all sequences over S of length at most n
RECURSIVE SeqsUpTo(_, _)
SeqsUpTo(S, n) ==
    IF n = 0 THEN {<<>>}
    ELSE LET shorter == SeqsUpTo(S, n - 1)
         IN  shorter \cup {Append(t, x) : t \in shorter, x \in S}

\* rule texts, well-formed or not: every sign-like prefix before every short
\* text over "/", "*" and a letter, and two longer malformed ones
SignTexts == {Plus, Minus, <<"+">>, <<>>}
TextChars == {"/", "*", "a"}
Stray1 == Plus \o <<"/", "a", "*", "b">> \o Stars2
Stray2 == Plus \o <<"/", "a">> \o Stars2 \o <<"/", "b">> \o Stars3
RawTexts ==
    {s \o b : s \in SignTexts, b \in SeqsUpTo(TextChars, MaxTextLen)} \cup {Stray1, Stray2}

\* the lists drawn as wildcards1
RuleLists == SeqsUpTo(WildPool, MaxRules) \cup {<<t>> : t \in RawTexts}

---------------------------------------------------------------------------
(* The wildcard functions as a state machine: a rule list is drawn, and     *)
(* each action is one call on it                                            *)

NoTree == <<>>

\* no check session is under way, and none has been
NoSession ==
    /\ fs = <<>>
    /\ fields = {}
    /\ bAutoFix = FALSE
    /\ record = {}
    /\ errs = <<>>
    /\ invoked = <<>>
    /\ pc = "none"

Init ==
    /\ wildcards1 \in RuleLists
    /\ wildcards2 = <<>>
    /\ name = <<>>
    /\ op = "init"
    /\ ret = Returned(<<>>)
    /\ tree = NoTree
    /\ listRev = FALSE
    /\ dirPrefix = Root
    /\ listed = <<>>
    /\ names = <<>>
    /\ NoSession

CheckPatterns ==
    /\ op' = "check_patterns"
    /\ ret' = IF check_patterns(wildcards1) THEN Returned(<<>>) ELSE Raised("WildcardError")
    /\ name' = <<>>
    /\ wildcards2' = <<>>
    /\ names' = <<>>
    /\ UNCHANGED <<wildcards1, globVars, chkVars>>

WildcardsMatch ==
    \E nm \in Paths :
        /\ op' = "wildcards_match"
        /\ name' = nm
        /\ ret' = wildcards_match(nm, wildcards1)
        /\ wildcards2' = <<>>
        /\ names' = <<>>
        /\ UNCHANGED <<wildcards1, globVars, chkVars>>

MergeWildcards ==
    \E w2 \in SeqsUpTo(WildPool2, MaxRules2) :
        /\ op' = "merge_wildcards"
        /\ wildcards2' = w2
        /\ ret' = merge_wildcards(wildcards1, w2)
        /\ name' = <<>>
        /\ names' = <<>>
        /\ UNCHANGED <<wildcards1, globVars, chkVars>>

DeductWildcards ==
    \E w2 \in SeqsUpTo(WildPool2, MaxRules2) :
        /\ op' = "deduct_wildcards"
        /\ wildcards2' = w2
        /\ ret' = deduct_wildcards(wildcards1, w2)
        /\ name' = <<>>
        /\ names' = <<>>
        /\ UNCHANGED <<wildcards1, globVars, chkVars>>

\* the lists of names handed to wildcards_filter: empty, one name, two names
\* and one name twice
NameLists ==
    { <<>>, <<P1(A)>>, <<P1(A), P2(A, A)>>, <<P2(A, A), P1(A)>>, <<P1(A), P1(A)>> }

WildcardsFilter ==
    \E nms \in NameLists :
        /\ op' = "wildcards_filter"
        /\ names' = nms
        /\ ret' = wildcards_filter(nms, wildcards1)
        /\ name' = <<>>
        /\ wildcards2' = <<>>
        /\ UNCHANGED <<wildcards1, globVars, chkVars>>

Next ==
    \/ CheckPatterns
    \/ WildcardsMatch
    \/ WildcardsFilter
    \/ MergeWildcards
    \/ DeductWildcards

Spec == Init /\ [][Next]_vars

---------------------------------------------------------------------------
(* The walker as a state machine: a tree, a rule list, a listing order and  *)
(* a root prefix are drawn, and wildcards_glob is called                    *)

TreePaths == Paths \ {Root}

\* the kinds an entry can have: with every link pointing at its sibling a,
\* only an entry named ab can be a link to something else than itself
KindsAt(q) ==
    IF SliceFrom(q, LastSlash(q, Len(q))) = AB THEN {"dir", "file", "link"} ELSE {"dir", "file"}

\* the trees of at most MaxEntries entries: every entry lies in a real directory
Trees ==
    {t \in UNION {[S -> {"dir", "file", "link"}] :
                     S \in {S \in SUBSET TreePaths : Cardinality(S) <= MaxEntries}} :
        \A q \in DOMAIN t :
            /\ t[q] \in KindsAt(q)
            /\ dirname(q) = Root \/ (dirname(q) \in DOMAIN t /\ t[dirname(q)] = "dir")}

\* the rules the walked lists are drawn from
GlobPool ==
    { Plus \o Stars2,
      Plus \o P1(A), Plus \o P1(A) \o Stars2, Plus \o P1(A) \o Stars3,
      Plus \o P3(A, A, A), Plus \o P1(AB) \o Stars3,
      Minus \o P1(A) \o Stars3, Minus \o P2(A, A) }

\* the tree and the rule list of the end-to-end example
Usr == <<"u", "s", "r">>
Bin == <<"b", "i", "n">>
Lib == <<"l", "i", "b">>
Src == <<"s", "r", "c">>
Foo == <<"f", "o", "o">>
ExampleTrees ==
    {t \in [{P1(Usr), P2(Usr, Bin), P2(Usr, Lib), P2(Usr, Src), P3(Usr, Src, Foo)} ->
               {"dir", "file"}] :
        t[P1(Usr)] = "dir" /\ t[P2(Usr, Src)] = "dir"}
ExampleRules == <<Plus \o P1(Usr) \o Stars2, Minus \o P2(Usr, Src) \o Stars2>>

\* root prefixes: the live root, and an image mounted at /m, written both ways
Prefixes == {Root, <<"/", "m">>, <<"/", "m", "/">>}

InitGlob ==
    /\ \/ /\ wildcards1 \in SeqsUpTo(GlobPool, MaxRules) \cup {<<(<<"+">> \o P1(A))>>}
          /\ tree \in Trees
          /\ dirPrefix \in Prefixes
       \/ /\ wildcards1 \in {ExampleRules, Reverse(ExampleRules)}
          /\ tree \in ExampleTrees
          /\ dirPrefix = Root
    /\ listRev \in BOOLEAN
    /\ wildcards2 = <<>>
    /\ name = <<>>
    /\ op = "init"
    /\ ret = Returned(<<>>)
    /\ listed = <<>>
    /\ names = <<>>
    /\ NoSession

WildcardsGlob ==
    /\ op = "init"
    /\ op' = "wildcards_glob"
    /\ \E call \in {wildcards_glob(dirPrefix, wildcards1)} :
          /\ ret' = call.ret
          /\ listed' = call.listed
    /\ UNCHANGED <<wildcards1, wildcards2, name, tree, listRev, dirPrefix, names, chkVars>>

NextGlob == WildcardsGlob

SpecGlob == InitGlob /\ [][NextGlob]_vars

---------------------------------------------------------------------------
(* The file system the check sessions read and change: the live root, with  *)
(* the audited tree somewhere in it.  fs maps the absolute path of every    *)
(* entry to what lstat finds there.                                         *)

\* most symbolic links the kernel follows while it resolves one path
MaxLinkHops == 2

\* an entry: kind is "dir", "file", "link", "chr" or "blk"; mode is
\* S_IMODE(st_mode); target is what readlink returns; major and minor are
\* those of st_rdev
Entry(k, m, u, g, t, ma, mi) ==
    [kind |-> k, mode |-> m, uid |-> u, gid |-> g, target |-> t, major |-> ma, minor |-> mi]

\* what the calls find where there is nothing
Absent == Entry("absent", 0, 0, 0, <<>>, 0, 0)

\* the path no entry has: where a lookup that fails ends
Nowhere == <<>>

\* the kernel's path walk from the resolved directory cur over the segments
\* rest: the path of the entry named, with every symbolic link on the way
\* followed, and the last one too when follow is set
RECURSIVE LookupFrom(_, _, _, _, _)
LookupFrom(f, cur, rest, follow, hops) ==
    IF rest = <<>> THEN cur
    ELSE LET seg == Head(rest)
             more == Tail(rest)
             nxt == PathJoin(cur, seg)
         IN  IF seg = <<".">> THEN LookupFrom(f, cur, more, follow, hops)
             ELSE IF seg = <<".", ".">> THEN LookupFrom(f, dirname(cur), more, follow, hops)
             ELSE IF nxt \notin DOMAIN f THEN (IF more = <<>> THEN nxt ELSE Nowhere)
             ELSE IF f[nxt].kind = "link" /\ (more # <<>> \/ follow)
             THEN IF hops = 0 THEN Nowhere
                  ELSE LookupFrom(f,
                                  IF StartsWith(f[nxt].target, Root) THEN Root ELSE cur,
                                  Segments(f[nxt].target) \o more, follow, hops - 1)
             ELSE IF f[nxt].kind # "dir" /\ more # <<>> THEN Nowhere
             ELSE LookupFrom(f, nxt, more, follow, hops)

Lookup(f, path, follow) == LookupFrom(f, Root, Segments(path), follow, MaxLinkHops)

\* os.lstat(path) and os.stat(path), Absent where they raise FileNotFoundError
lstat(f, path) ==
    LET q == Lookup(f, path, FALSE) IN IF q \in DOMAIN f THEN f[q] ELSE Absent

stat(f, path) ==
    LET q == Lookup(f, path, TRUE) IN IF q \in DOMAIN f THEN f[q] ELSE Absent

\* os.path.lexists, os.path.exists, os.path.islink, os.path.isdir, os.path.isfile
lexists(f, path) == lstat(f, path).kind # "absent"
exists(f, path) == stat(f, path).kind # "absent"
IsLink(f, path) == lstat(f, path).kind = "link"
IsDir(f, path) == stat(f, path).kind = "dir"
IsFile(f, path) == stat(f, path).kind = "file"

\* _isRealDir(path)
isRealDir(f, path) == IsDir(f, path) /\ ~IsLink(f, path)

\* the entries directly in the directory at the resolved path d
ChildrenOf(f, d) == {q \in DOMAIN f : q # Root /\ dirname(q) = d}

\* os.listdir(path) of a path that names a directory: the names of its
\* entries, sorted, or in the reverse of that when listRev is set
ListDir(f, path) ==
    LET sorted == SortNames({basename(q) : q \in ChildrenOf(f, Lookup(f, path, TRUE))})
    IN  IF listRev THEN Reverse(sorted) ELSE sorted

---------------------------------------------------------------------------
(* _HelperPrefixedDirOp: the check primitives.  A primitive takes the       *)
(* session as it stands (file system, claimed paths, messages delivered,    *)
(* exception under way) and gives the session as it leaves it.              *)

Session(f, r, e, x) == [fs |-> f, record |-> r, errs |-> e, exc |-> x]

\* the message "\"%s\" <text>" % (fn)
Msg(fn, text) == <<fn, text>>

\* self.p._errCb(msg)
errCb(s, msg) == [s EXCEPT !.errs = Append(@, msg)]

Raise(s, x) == [s EXCEPT !.exc = x]

Put(f, q, e) == [x \in DOMAIN f \cup {q} |-> IF x = q THEN e ELSE f[x]]
Drop(f, q) == [x \in DOMAIN f \ {q} |-> f[x]]

\* os.mkdir(path), by a process of user 0, group 0 and umask 022
mkdir(s, path) ==
    LET q == Lookup(s.fs, path, FALSE)
    IN  IF q = Nowhere \/ q \in DOMAIN s.fs THEN Raise(s, "OSError")
        ELSE [s EXCEPT !.fs = Put(@, q, Entry("dir", \o755, 0, 0, <<>>, 0, 0))]

\* os.symlink(target, path)
symlink(s, target, path) ==
    LET q == Lookup(s.fs, path, FALSE)
    IN  IF q = Nowhere \/ q \in DOMAIN s.fs THEN Raise(s, "OSError")
        ELSE [s EXCEPT !.fs = Put(@, q, Entry("link", \o777, 0, 0, target, 0, 0))]

\* os.unlink(path), os.remove(path)
unlink(s, path) ==
    LET q == Lookup(s.fs, path, FALSE)
    IN  IF q \notin DOMAIN s.fs \/ s.fs[q].kind = "dir" THEN Raise(s, "OSError")
        ELSE [s EXCEPT !.fs = Drop(@, q)]

\* os.chmod(path, mode): follows a symbolic link
chmod(s, path, mode) ==
    LET q == Lookup(s.fs, path, TRUE)
    IN  IF q \notin DOMAIN s.fs THEN Raise(s, "OSError")
        ELSE [s EXCEPT !.fs[q].mode = mode]

\* os.lchown(path, uid, gid)
lchown(s, path, uid, gid) ==
    LET q == Lookup(s.fs, path, FALSE)
    IN  IF q \notin DOMAIN s.fs THEN Raise(s, "OSError")
        ELSE [s EXCEPT !.fs[q].uid = uid, !.fs[q].gid = gid]

\* __validPath(fn)
validPath(fn) == fn = Root \/ (StartsWith(fn, Root) /\ ~EndsWith(fn, Root))

\* __fn2fullfn(fn)
fn2fullfn(pre, fn) == PathJoin(pre, SliceFrom(fn, 1))

\* the mode argument left at its default, None
NoMode == -1

\* an owner or group argument: None, a numeric id, or a name
None == [t |-> "none"]
Id(i) == [t |-> "id", id |-> i]
Named(n) == [t |-> "name", name |-> n]

RootName == <<"r", "o", "o", "t">>

\* the user and group databases pwd.getpwnam and grp.getgrnam read
PwNam == [n \in {RootName, A} |-> IF n = RootName THEN 0 ELSE 1]
GrNam == [n \in {RootName, A} |-> IF n = RootName THEN 0 ELSE 1]

\* __checkMode that reports a wrong mode and never changes it
checkModeReportOnly(auto, s, fn, fullfn, mode) ==
    IF IsLink(s.fs, fullfn) \/ mode >= \o10000 THEN Raise(s, "AssertionError")
    ELSE IF ~lexists(s.fs, fullfn) THEN Raise(s, "OSError")
    ELSE IF lstat(s.fs, fullfn).mode # mode
    THEN errCb(s, Msg(fn, "has invalid permission."))
    ELSE s

\* __checkMode(fn, fullfn, mode)
checkMode(auto, s, fn, fullfn, mode) ==
    IF IsLink(s.fs, fullfn) \/ mode >= \o10000 THEN Raise(s, "AssertionError")
    ELSE IF ~lexists(s.fs, fullfn) THEN Raise(s, "OSError")
    ELSE IF lstat(s.fs, fullfn).mode # mode
    THEN IF auto THEN chmod(s, fullfn, mode)
         ELSE errCb(s, Msg(fn, "has invalid permission."))
    ELSE s

\* a statement that left the session s1, and the statements F that follow it
\* unless it raised
Then(s1, F(_)) == IF s1.exc # "" THEN s1 ELSE F(s1)

\* a local variable: the value v, named in the statements F that follow
With(v, F(_)) == F(v)

\* the two tests of __checkOwnerGroup on the one lstat result st taken before
\* them: the second lchown hands back the uid st holds
OwnerGroupTests(auto, s, fn, fullfn, ownerId, groupId, st) ==
    Then(IF st.uid # ownerId
         THEN IF auto THEN lchown(s, fullfn, ownerId, st.gid)
              ELSE errCb(s, Msg(fn, "has invalid owner."))
         ELSE s,
         LAMBDA s1 :
            IF st.gid # groupId
            THEN IF auto THEN lchown(s1, fullfn, st.uid, groupId)
                 ELSE errCb(s1, Msg(fn, "has invalid owner group."))
            ELSE s1)

\* __checkOwnerGroup(fn, fullfn, owner, group)
checkOwnerGroup(auto, s, fn, fullfn, owner, group) ==
    IF owner.t # group.t THEN Raise(s, "AssertionError")
    ELSE IF owner.t = "name" /\ (owner.name \notin DOMAIN PwNam \/ group.name \notin DOMAIN GrNam)
    THEN Raise(s, "KeyError")
    ELSE IF ~lexists(s.fs, fullfn) THEN Raise(s, "OSError")
    ELSE OwnerGroupTests(auto, s, fn, fullfn,
                         IF owner.t = "id" THEN owner.id ELSE PwNam[owner.name],
                         IF group.t = "id" THEN group.id ELSE GrNam[group.name],
                         lstat(s.fs, fullfn))

\* the end of _checkDir and of _checkFile: the mode, then owner and group
CheckModeOwner(auto, s, fn, fullfn, mode, owner, group) ==
    Then(IF mode # NoMode THEN checkMode(auto, s, fn, fullfn, mode) ELSE s,
         LAMBDA s1 :
            IF owner.t # "none" THEN checkOwnerGroup(auto, s1, fn, fullfn, owner, group)
            ELSE s1)

\* _checkDir where it claims the path after the test of the kind: a path of
\* the wrong kind is reported and left unclaimed
checkDirClaimsValidOnly(pre, auto, s, fn, mode, owner, group) ==
    IF ~validPath(fn) THEN Raise(s, "AssertionError")
    ELSE LET fullfn == fn2fullfn(pre, fn)
             missing == ~lexists(s.fs, fullfn)
         IN  IF missing /\ ~auto THEN errCb(s, Msg(fn, "does not exist."))
             ELSE Then(IF missing THEN mkdir(s, fullfn) ELSE s,
                       LAMBDA s1 :
                          IF IsLink(s1.fs, fullfn) \/ ~IsDir(s1.fs, fullfn)
                          THEN errCb(s1, Msg(fn, "is invalid."))
                          ELSE With([s1 EXCEPT !.record = @ \cup {fn}],
                                    LAMBDA s2 :
                                       CheckModeOwner(auto, s2, fn, fullfn, mode, owner,
                                                      group)))

\* _checkDir(fn, mode, owner, group)
checkDir(pre, auto, s, fn, mode, owner, group) ==
    IF ~validPath(fn) THEN Raise(s, "AssertionError")
    ELSE LET fullfn == fn2fullfn(pre, fn)
             missing == ~lexists(s.fs, fullfn)
         IN  IF missing /\ ~auto THEN errCb(s, Msg(fn, "does not exist."))
             ELSE Then(IF missing THEN mkdir(s, fullfn) ELSE s,
                       LAMBDA s1 :
                          With([s1 EXCEPT !.record = @ \cup {fn}],
                               LAMBDA s2 :
                                  IF IsLink(s2.fs, fullfn) \/ ~IsDir(s2.fs, fullfn)
                                  THEN errCb(s2, Msg(fn, "is invalid."))
                                  ELSE CheckModeOwner(auto, s2, fn, fullfn, mode, owner,
                                                      group)))

\* _checkFile without its test of the kind: whatever is at the path goes on to
\* the mode and owner tests
checkFileAnyKind(pre, auto, s, fn, mode, owner, group) ==
    IF ~validPath(fn) THEN Raise(s, "AssertionError")
    ELSE LET fullfn == fn2fullfn(pre, fn)
             s2 == [s EXCEPT !.record = @ \cup {fn}]
         IN  IF ~lexists(s.fs, fullfn) THEN errCb(s, Msg(fn, "does not exist."))
             ELSE IF IsLink(s2.fs, fullfn) THEN errCb(s2, Msg(fn, "is invalid."))
             ELSE CheckModeOwner(auto, s2, fn, fullfn, mode, owner, group)

\* _checkFile(fn, mode, owner, group)
checkFile(pre, auto, s, fn, mode, owner, group) ==
    IF ~validPath(fn) THEN Raise(s, "AssertionError")
    ELSE LET fullfn == fn2fullfn(pre, fn)
             s2 == [s EXCEPT !.record = @ \cup {fn}]
         IN  IF ~lexists(s.fs, fullfn) THEN errCb(s, Msg(fn, "does not exist."))
             ELSE IF IsLink(s2.fs, fullfn) \/ ~IsFile(s2.fs, fullfn)
             THEN errCb(s2, Msg(fn, "is invalid."))
             ELSE CheckModeOwner(auto, s2, fn, fullfn, mode, owner, group)

\* the end of _checkSymlink and of _checkUsrMergeSymlink: the target, then
\* owner and group
CheckTargetOwner(auto, s, fn, fullfn, target, owner, group) ==
    LET wrong == lstat(s.fs, fullfn).target # target
    IN  IF wrong /\ ~auto THEN errCb(s, Msg(fn, "is invalid."))
        ELSE Then(IF wrong
                  THEN Then(unlink(s, fullfn), LAMBDA s1 : symlink(s1, target, fullfn))
                  ELSE s,
                  LAMBDA s2 :
                     IF owner.t # "none" THEN checkOwnerGroup(auto, s2, fn, fullfn, owner, group)
                     ELSE s2)

\* _checkSymlink(fn, target, owner, group)
checkSymlink(pre, auto, s, fn, target, owner, group) ==
    IF ~validPath(fn) THEN Raise(s, "AssertionError")
    ELSE LET fullfn == fn2fullfn(pre, fn)
             missing == ~lexists(s.fs, fullfn)
         IN  IF missing /\ ~auto THEN errCb(s, Msg(fn, "does not exist."))
             ELSE Then(IF missing THEN symlink(s, target, fullfn) ELSE s,
                       LAMBDA s1 :
                          With([s1 EXCEPT !.record = @ \cup {fn}],
                               LAMBDA s2 :
                                  IF ~IsLink(s2.fs, fullfn) THEN errCb(s2, Msg(fn, "is invalid."))
                                  ELSE CheckTargetOwner(auto, s2, fn, fullfn, target, owner,
                                                        group)))

DotKeep == <<".", "k", "e", "e", "p">>

\* the loop of _checkNoRedundantFilesWithoutRecursion with every ".keep" name
\* passed over, whatever the flag says
RECURSIVE RedundantLoopSkipDotKeep(_, _, _, _, _)
RedundantLoopSkipDotKeep(s, fn, list, i, bIgnoreDotKeepFiles) ==
    IF i > Len(list) THEN s
    ELSE IF StartsWith(list[i], DotKeep)
    THEN RedundantLoopSkipDotKeep(s, fn, list, i + 1, bIgnoreDotKeepFiles)
    ELSE IF PathJoin(fn, list[i]) \notin s.record
    THEN RedundantLoopSkipDotKeep(errCb(s, Msg(PathJoin(fn, list[i]), "should not exist.")),
                                  fn, list, i + 1, bIgnoreDotKeepFiles)
    ELSE RedundantLoopSkipDotKeep(s, fn, list, i + 1, bIgnoreDotKeepFiles)

\* the loop of _checkNoRedundantFilesWithoutRecursion over the listed names,
\* from name i on
RECURSIVE RedundantLoop(_, _, _, _, _)
RedundantLoop(s, fn, list, i, bIgnoreDotKeepFiles) ==
    IF i > Len(list) THEN s
    ELSE IF bIgnoreDotKeepFiles /\ StartsWith(list[i], DotKeep)
    THEN RedundantLoop(s, fn, list, i + 1, bIgnoreDotKeepFiles)
    ELSE IF PathJoin(fn, list[i]) \notin s.record
    THEN RedundantLoop(errCb(s, Msg(PathJoin(fn, list[i]), "should not exist.")),
                       fn, list, i + 1, bIgnoreDotKeepFiles)
    ELSE RedundantLoop(s, fn, list, i + 1, bIgnoreDotKeepFiles)

\* _checkNoRedundantFilesWithoutRecursion(fn, bIgnoreDotKeepFiles)
checkNoRedundantFilesWithoutRecursion(pre, s, fn, bIgnoreDotKeepFiles) ==
    IF ~validPath(fn) THEN Raise(s, "AssertionError")
    ELSE IF ~IsDir(s.fs, fn2fullfn(pre, fn)) THEN Raise(s, "OSError")
    ELSE RedundantLoop(s, fn, ListDir(s.fs, fn2fullfn(pre, fn)), 1, bIgnoreDotKeepFiles)

\* _checkDirIsEmpty(fn)
checkDirIsEmpty(pre, s, fn) ==
    IF ~validPath(fn) THEN Raise(s, "AssertionError")
    ELSE IF ~IsDir(s.fs, fn2fullfn(pre, fn)) THEN Raise(s, "OSError")
    ELSE LET list == ListDir(s.fs, fn2fullfn(pre, fn))
         IN  IF \E i \in 1..Len(list) : ~StartsWith(list[i], DotKeep)
             THEN errCb(s, Msg(fn, "is not empty."))
             ELSE s

\* bit b (a power of two) is set in m
Bit(m, b) == (m \div b) % 2 = 1

\* mode & ~0o022: the mode a node asked for with mode gets under umask 022
UnderUmask(mode) ==
    mode - (IF Bit(mode, \o20) THEN \o20 ELSE 0) - (IF Bit(mode, \o2) THEN \o2 ELSE 0)

\* os.mknod(path, flag | mode, os.makedev(major, minor))
mknod(s, path, kind, mode, major, minor) ==
    LET q == Lookup(s.fs, path, FALSE)
    IN  IF q = Nowhere \/ q \in DOMAIN s.fs THEN Raise(s, "OSError")
        ELSE [s EXCEPT !.fs = Put(@, q, Entry(kind, UnderUmask(mode), 0, 0, <<>>, major, minor))]

\* os.chown(path, uid, gid): follows a symbolic link
chown(s, path, uid, gid) ==
    LET q == Lookup(s.fs, path, TRUE)
    IN  IF q \notin DOMAIN s.fs THEN Raise(s, "OSError")
        ELSE [s EXCEPT !.fs[q].uid = uid, !.fs[q].gid = gid]

\* os.rmdir(path): "ENOTEMPTY" stands for the OSError with errno 39
rmdir(s, path) ==
    LET q == Lookup(s.fs, path, FALSE)
    IN  IF q \notin DOMAIN s.fs \/ s.fs[q].kind # "dir" THEN Raise(s, "OSError")
        ELSE IF ChildrenOf(s.fs, q) # {} THEN Raise(s, "ENOTEMPTY")
        ELSE [s EXCEPT !.fs = Drop(@, q)]

\* an element of nodeInfoList
NodeInfo(nm, devType, major, minor, mode, owner, group) ==
    [name |-> nm, devType |-> devType, major |-> major, minor |-> minor, mode |-> mode,
     owner |-> owner, group |-> group]

\* _makeDeviceNodeFile(path, devType, major, minor, mode, owner, group)
makeDeviceNodeFile(s, path, n) ==
    IF n.devType \notin {"b", "c"} THEN Raise(s, "AssertionError")
    ELSE Then(mknod(s, path, IF n.devType = "b" THEN "blk" ELSE "chr", n.mode, n.major, n.minor),
              LAMBDA s1 :
                 IF n.owner.t # "name" \/ n.group.t # "name" THEN Raise(s1, "TypeError")
                 ELSE IF n.owner.name \notin DOMAIN PwNam \/ n.group.name \notin DOMAIN GrNam
                 THEN Raise(s1, "KeyError")
                 ELSE chown(s1, path, PwNam[n.owner.name], GrNam[n.group.name]))

\* os.remove(fullfn), then _makeDeviceNodeFile(fullfn, ...)
RemakeNode(s, fullfn, n) ==
    Then(unlink(s, fullfn), LAMBDA s1 : makeDeviceNodeFile(s1, fullfn, n))

\* the body of the node loop from the major and minor test on; st is the
\* lstat result taken before the type test
CheckNodeNumbers(auto, s, fn, fullfn, n, st) ==
    LET wrong == st.major # n.major \/ st.minor # n.minor
    IN  IF wrong /\ ~auto THEN errCb(s, Msg(fn, "has invalid major and minor number."))
        ELSE Then(IF wrong THEN RemakeNode(s, fullfn, n) ELSE s,
                  LAMBDA s1 :
                     Then(checkMode(auto, s1, fn, fullfn, n.mode),
                          LAMBDA s2 : checkOwnerGroup(auto, s2, fn, fullfn, n.owner, n.group)))

\* the body of the node loop from the type test on
CheckNodeType(auto, s, fn, fullfn, n, st) ==
    IF n.devType \notin {"b", "c"} THEN Raise(s, "AssertionError")
    ELSE LET wrong == st.kind # (IF n.devType = "b" THEN "blk" ELSE "chr")
         IN  IF wrong /\ ~auto
             THEN errCb(s, Msg(fn, IF n.devType = "b"
                                   THEN "is not a block special device file."
                                   ELSE "is not a character special device file."))
             ELSE Then(IF wrong THEN RemakeNode(s, fullfn, n) ELSE s,
                       LAMBDA s1 : CheckNodeNumbers(auto, s1, fn, fullfn, n, st))

\* the body of the node loop of _checkDevDirContent, for one node
CheckNode(pre, auto, s, devDir, n) ==
    LET fn == PathJoin(devDir, n.name)
        fullfn == fn2fullfn(pre, fn)
        missing == ~lexists(s.fs, fullfn)
    IN  IF missing /\ ~auto THEN errCb(s, Msg(fn, "does not exist."))
        ELSE Then(IF missing THEN makeDeviceNodeFile(s, fullfn, n) ELSE s,
                  LAMBDA s1 : CheckNodeType(auto, s1, fn, fullfn, n, lstat(s1.fs, fullfn)))

RECURSIVE CheckNodes(_, _, _, _, _, _)
CheckNodes(pre, auto, s, devDir, nodeInfoList, i) ==
    IF i > Len(nodeInfoList) \/ s.exc # "" THEN s
    ELSE CheckNodes(pre, auto, CheckNode(pre, auto, s, devDir, nodeInfoList[i]),
                    devDir, nodeInfoList, i + 1)

\* _fullListDir(fn, recursive) of a path that names a directory
RECURSIVE fullListDir(_, _, _, _)
RECURSIVE FullListLoop(_, _, _, _, _, _)
FullListLoop(pre, f, fn, list, i, recursive) ==
    IF i > Len(list) THEN <<>>
    ELSE LET ifn == PathJoin(fn, list[i])
         IN  <<ifn>>
             \o (IF recursive /\ isRealDir(f, fn2fullfn(pre, ifn))
                 THEN fullListDir(pre, f, ifn, TRUE)
                 ELSE <<>>)
             \o FullListLoop(pre, f, fn, list, i + 1, recursive)

fullListDir(pre, f, fn, recursive) ==
    FullListLoop(pre, f, fn, ListDir(f, fn2fullfn(pre, fn)), 1, recursive)

\* the order the sweep visits the listed paths in: reversed(...)
SweepOrder(list) == Reverse(list)

\* the loop over the redundant entries, from path i of list on
RECURSIVE RemoveRedundant(_, _, _, _, _, _)
RemoveRedundant(pre, auto, s, list, i, keepList) ==
    IF i > Len(list) \/ s.exc # "" THEN s
    ELSE LET fn == list[i]
             fullfn == fn2fullfn(pre, fn)
             next == IF \E k \in 1..Len(keepList) : keepList[k] = fn THEN s
                     ELSE IF ~auto THEN errCb(s, Msg(fn, "should not exist."))
                     ELSE IF IsLink(s.fs, fullfn) \/ ~IsDir(s.fs, fullfn) THEN unlink(s, fullfn)
                     ELSE With(rmdir(s, fullfn),
                               LAMBDA gone :
                                  IF gone.exc = "ENOTEMPTY"
                                  THEN errCb(s, Msg(fn, "should not exist but has valid file(s) in it."))
                                  ELSE gone)
         IN  RemoveRedundant(pre, auto, next, list, i + 1, keepList)

\* _checkDevDirContent(devDir, nodeInfoList)
checkDevDirContent(pre, auto, s, devDir, nodeInfoList) ==
    IF \/ ~validPath(devDir)
       \/ \E i \in 1..Len(nodeInfoList) :
             StartsWith(nodeInfoList[i].name, Root) \/ EndsWith(nodeInfoList[i].name, Root)
    THEN Raise(s, "AssertionError")
    ELSE LET keepList == [i \in 1..Len(nodeInfoList) |-> PathJoin(devDir, nodeInfoList[i].name)]
         IN  Then(CheckNodes(pre, auto, s, devDir, nodeInfoList, 1),
                  LAMBDA s1 :
                     IF ~IsDir(s1.fs, fn2fullfn(pre, devDir)) THEN Raise(s1, "OSError")
                     ELSE Then(RemoveRedundant(pre, auto, s1,
                                               SweepOrder(fullListDir(pre, s1.fs, devDir, TRUE)),
                                               1, keepList),
                               LAMBDA s2 :
                                  With(fullListDir(pre, s2.fs, devDir, TRUE),
                                       LAMBDA left :
                                          [s2 EXCEPT !.record =
                                              @ \cup {left[i] : i \in 1..Len(left)}])))

---------------------------------------------------------------------------
(* _HelperUsrMerge and the usr-merge primitive *)

\* os.path.abspath(path) of an absolute path: "." and ".." and repeated
\* slashes folded away in the text, no link followed
RECURSIVE NormSegments(_, _)
NormSegments(segs, done) ==
    IF segs = <<>> THEN done
    ELSE IF Head(segs) = <<".">> THEN NormSegments(Tail(segs), done)
    ELSE IF Head(segs) = <<".", ".">>
    THEN NormSegments(Tail(segs), SubSeq(done, 1, IF done = <<>> THEN 0 ELSE Len(done) - 1))
    ELSE NormSegments(Tail(segs), Append(done, Head(segs)))

abspath(path) ==
    LET segs == NormSegments(Segments(path), <<>>)
    IN  IF segs = <<>> THEN Root ELSE FromSegments(segs)

\* os.path.realpath(path): every link followed; Nowhere stands for the text
\* realpath gives for a path that does not resolve, which names no entry
realpath(f, path) == Lookup(f, path, TRUE)

\* _hasSameStat(path1, path2)
hasSameStat(f, path1, path2) ==
    /\ stat(f, path1).kind = stat(f, path2).kind
    /\ stat(f, path1).mode = stat(f, path2).mode
    /\ stat(f, path1).uid = stat(f, path2).uid
    /\ stat(f, path1).gid = stat(f, path2).gid

\* os.rename of the entry at qa to the place qb, both already looked up
RenameEntry(s, qa, qb) ==
    LET f == s.fs
        moved == {q \in DOMAIN f : q = qa \/ StartsWith(q, qa \o Root)}
        to(q) == qb \o SliceFrom(q, Len(qa))
        fits == \/ qb \notin DOMAIN f
                \/ f[qb].kind # "dir" /\ f[qa].kind # "dir"
                \/ f[qb].kind = "dir" /\ f[qa].kind = "dir" /\ ChildrenOf(f, qb) = {}
    IN  IF qa \notin DOMAIN f \/ qb = Nowhere \/ ~fits \/ StartsWith(qb, qa \o Root)
        THEN Raise(s, "OSError")
        ELSE IF qa = qb THEN s
        ELSE [s EXCEPT !.fs =
                 [q \in ((DOMAIN f \ moved) \cup {to(x) : x \in moved}) |->
                     IF \E x \in moved : to(x) = q
                     THEN f[CHOOSE x \in moved : to(x) = q]
                     ELSE f[q]]]

\* os.rename(src, dst): the entry, and all beneath it, moves to dst
rename(s, src, dst) ==
    With(Lookup(s.fs, src, FALSE),
         LAMBDA qa : With(Lookup(s.fs, dst, FALSE), LAMBDA qb : RenameEntry(s, qa, qb)))

\* li in right_list
InList(li, list) == \E k \in 1..Len(list) : list[k] = li

\* the two tests for a redundant link of compare_dir and move_dir
RedundantLeft(f, fli, fri) == IsLink(f, fli) /\ realpath(f, fli) = abspath(fri)
RedundantRight(f, fli, fri) == IsLink(f, fri) /\ realpath(f, fri) = abspath(fli)

\* _HelperUsrMerge.compare_dir(src, dst) of two directories: the conflicts
RECURSIVE compare_dir(_, _, _)
RECURSIVE CompareLoop(_, _, _, _, _, _)
CompareLoop(f, src, dst, left_list, right_list, i) ==
    IF i > Len(left_list) THEN <<>>
    ELSE LET li == left_list[i]
             fli == PathJoin(src, li)
             fri == PathJoin(dst, li)
             found ==
                 IF ~InList(li, right_list) THEN <<>>
                 ELSE IF RedundantLeft(f, fli, fri) \/ RedundantRight(f, fli, fri) THEN <<>>
                 ELSE IF ~isRealDir(f, fli) THEN << <<fli, "left-file">> >>
                 ELSE IF ~isRealDir(f, fri) THEN << <<fli, "right-file">> >>
                 ELSE IF ~hasSameStat(f, fli, fri) THEN << <<fli, "stat-not-same">> >>
                 ELSE compare_dir(f, fli, fri)
         IN  found \o CompareLoop(f, src, dst, left_list, right_list, i + 1)

compare_dir(f, src, dst) == CompareLoop(f, src, dst, ListDir(f, src), ListDir(f, dst), 1)

\* _HelperUsrMerge.move_dir(src, dst) of two directories
RECURSIVE move_dir(_, _, _)
RECURSIVE MoveLoop(_, _, _, _, _, _)
MoveLoop(s, src, dst, left_list, right_list, i) ==
    IF i > Len(left_list) \/ s.exc # "" THEN s
    ELSE LET li == left_list[i]
             fli == PathJoin(src, li)
             fri == PathJoin(dst, li)
             next ==
                 IF ~InList(li, right_list) THEN rename(s, fli, fri)
                 ELSE IF RedundantLeft(s.fs, fli, fri) THEN unlink(s, fli)
                 ELSE IF RedundantRight(s.fs, fli, fri)
                 THEN Then(unlink(s, fri), LAMBDA freed : rename(freed, fli, fri))
                 ELSE IF isRealDir(s.fs, fli) /\ isRealDir(s.fs, fri) /\ hasSameStat(s.fs, fli, fri)
                 THEN move_dir(s, fli, fri)
                 ELSE Raise(s, "MoveDirError")
         IN  MoveLoop(next, src, dst, left_list, right_list, i + 1)

move_dir(s, src, dst) ==
    Then(MoveLoop(s, src, dst, ListDir(s.fs, src), ListDir(s.fs, dst), 1),
         LAMBDA s1 :
            With(rmdir(s1, src),
                 LAMBDA gone : IF gone.exc # "" THEN Raise(s1, "OSError") ELSE gone))

\* the message "Directory \"%s\" and \"%s\" has common files, no way to
\* combine them." % (fn, target)
CommonFilesMsg(fn, target) == <<fn, target, "has common files, no way to combine them.">>

\* the usr-merge primitive where it moves whatever compare_dir has found
MergeAnyway(s, fn, fullfn, target, fullTarget) ==
    Then(move_dir(s, fullfn, fullTarget), LAMBDA s1 : symlink(s1, target, fullfn))

\* the branch of _checkUsrMergeSymlink for a real directory at the path:
\* compare, then move and link, or report
MergeRealDir(s, fn, fullfn, target, fullTarget) ==
    IF Len(compare_dir(s.fs, fullfn, fullTarget)) # 0
    THEN errCb(s, CommonFilesMsg(fn, target))
    ELSE Then(move_dir(s, fullfn, fullTarget), LAMBDA s1 : symlink(s1, target, fullfn))

\* _checkUsrMergeSymlink from the test of the target on, the path fn being
\* there and claimed in the session s2
MergeOrLink(auto, s2, fn, fullfn, target, fullTarget, owner, group) ==
    IF ~isRealDir(s2.fs, fullTarget) THEN errCb(s2, Msg(fullTarget, "is invalid."))
    ELSE IF ~IsLink(s2.fs, fullfn) /\ ~isRealDir(s2.fs, fullfn)
    THEN errCb(s2, Msg(fullTarget, "is invalid."))
    ELSE With(IF ~IsLink(s2.fs, fullfn)
              THEN MergeRealDir(s2, fn, fullfn, target, fullTarget)
              ELSE s2,
              LAMBDA s3 :
                 IF s3.exc # "" \/ s3.errs # s2.errs THEN s3
                 ELSE CheckTargetOwner(auto, s3, fn, fullfn, target, owner, group))

\* _checkUsrMergeSymlink(fn, target, owner, group)
checkUsrMergeSymlink(pre, auto, s, fn, target, owner, group) ==
    IF ~validPath(fn) THEN Raise(s, "AssertionError")
    ELSE LET fullfn == fn2fullfn(pre, fn)
             fullTarget == PathJoin(dirname(fullfn), target)
             missing == ~lexists(s.fs, fullfn)
         IN  IF missing /\ ~auto THEN errCb(s, Msg(fn, "does not exist."))
             ELSE Then(IF missing THEN symlink(s, target, fullfn) ELSE s,
                       LAMBDA s1 :
                          With([s1 EXCEPT !.record = @ \cup {fn}],
                               LAMBDA s2 :
                                  MergeOrLink(auto, s2, fn, fullfn, target, fullTarget, owner,
                                              group)))

---------------------------------------------------------------------------
(* The check primitives as a state machine: a file system, the auto-fix     *)
(* flag and a call are drawn, and the call is made, and then made again     *)

Mnt == <<"/", "m">>
D == <<"d">>
B == <<"b">>

\* the file system with the directory pre (and the root) and the given
\* entries beneath pre: ents maps a root-relative path to an entry or Absent
Mounted(pre, ents) ==
    LET at(rel) == IF pre = Root THEN rel ELSE pre \o rel
        rels == {rel \in DOMAIN ents : ents[rel].kind # "absent"}
    IN  [q \in {Root, pre} \cup {at(rel) : rel \in rels} |->
            IF q \in {Root, pre} THEN Entry("dir", \o755, 0, 0, <<>>, 0, 0)
            ELSE ents[CHOOSE rel \in rels : at(rel) = q]]

\* what can be at the checked path: nothing, a directory or a regular file
\* with either mode, owner and group, or a symbolic link to a or to b
CheckedEntries ==
    {Absent}
    \cup {Entry(k, m, u, g, <<>>, 0, 0) :
             k \in {"dir", "file"}, m \in {\o755, \o700}, u \in {0, 1}, g \in {0, 1}}
    \cup {Entry("link", \o777, u, g, t, 0, 0) : t \in {A, B}, u \in {0, 1}, g \in {0, 1}}

\* what can be next to it, at a
SiblingEntries ==
    {Absent, Entry("dir", \o755, 0, 0, <<>>, 0, 0), Entry("file", \o644, 0, 0, <<>>, 0, 0)}

\* a call of a primitive
Call(prim, fn, mode, owner, group, target) ==
    [prim |-> prim, fn |-> fn, mode |-> mode, owner |-> owner, group |-> group,
     target |-> target]

\* the calls of the Directory, File and Symlink primitives on /d
BasicCalls ==
    {Call(p, P1(D), m, og, og, A) :
        p \in {"_checkDir", "_checkFile", "_checkSymlink"},
        m \in {NoMode, \o755},
        og \in {None, Id(0), Named(RootName)}}

\* a session is under way: the three session attributes are set
InSession == fields = {"_bAutoFix", "_errCb", "_record"}

InitBasic ==
    /\ dirPrefix \in {Root, Mnt}
    /\ \E de \in CheckedEntries, ae \in SiblingEntries :
          fs = Mounted(dirPrefix, [rel \in {P1(D), P1(A)} |-> IF rel = P1(D) THEN de ELSE ae])
    /\ invoked \in BasicCalls
    /\ record = {}

\* the children a swept directory can have: a (a directory, with or without
\* an entry of its own, a regular file or a symbolic link), b and .keep
SweptChildren ==
    {[rel \in {P1(A), P1(B), P1(DotKeep), P2(A, A)} |->
         CASE rel = P1(A) -> a
           [] rel = P1(B) -> b
           [] rel = P1(DotKeep) -> k
           [] OTHER -> aa] :
        a \in SiblingEntries \cup {Entry("link", \o777, 0, 0, B, 0, 0)},
        b \in {Absent, Entry("file", \o644, 0, 0, <<>>, 0, 0)},
        k \in {Absent, Entry("file", \o644, 0, 0, <<>>, 0, 0)},
        aa \in {Absent, Entry("file", \o644, 0, 0, <<>>, 0, 0)}}

\* a sweep of /d or of /, with any of the paths claimed before it
InitSweep ==
    /\ dirPrefix \in {Root, Mnt}
    /\ \E in \in {Root, P1(D)}, de \in {Entry("dir", \o755, 0, 0, <<>>, 0, 0),
                                       Entry("file", \o644, 0, 0, <<>>, 0, 0)},
          ch \in SweptChildren :
          /\ ch[P2(A, A)].kind # "absent" => ch[P1(A)].kind = "dir"
          /\ in = Root => de.kind = "dir"
          /\ fs = Mounted(dirPrefix,
                          IF in = Root THEN ch
                          ELSE [rel \in {P1(D)} \cup {P1(D) \o c : c \in DOMAIN ch} |->
                                   IF rel = P1(D) THEN de
                                   ELSE IF de.kind = "dir" THEN ch[SliceFrom(rel, 2)]
                                   ELSE Absent])
          /\ invoked = Call("_checkNoRedundantFilesWithoutRecursion", in, NoMode, None, None, <<>>)
          /\ record \in SUBSET {PathJoin(in, A), PathJoin(in, B), PathJoin(PathJoin(in, A), A)}

\* the two nodes a device directory is to hold, as /dev holds console and null
NodeA == NodeInfo(A, "c", 5, 1, \o600, Named(RootName), Named(RootName))
NodeB == NodeInfo(B, "c", 1, 3, \o666, Named(RootName), Named(RootName))

C == <<"c">>

File644 == Entry("file", \o644, 0, 0, <<>>, 0, 0)
Dir755 == Entry("dir", \o755, 0, 0, <<>>, 0, 0)

\* what can be at the name of the first node, of the second node, and at c,
\* a name of no node, with what is beneath c
AtNodeA ==
    { Absent, Entry("chr", \o600, 0, 0, <<>>, 5, 1), Entry("chr", \o644, 1, 1, <<>>, 5, 1),
      Entry("chr", \o600, 0, 0, <<>>, 1, 3), Entry("blk", \o600, 0, 0, <<>>, 5, 1),
      File644, Entry("link", \o777, 0, 0, B, 0, 0), Dir755 }
AtNodeB == {Absent, Entry("chr", \o666, 0, 0, <<>>, 1, 3), File644}
AtOther ==
    { <<Absent, Absent, Absent>>, <<File644, Absent, Absent>>,
      <<Entry("link", \o777, 0, 0, A, 0, 0), Absent, Absent>>,
      <<Dir755, Absent, Absent>>, <<Dir755, File644, Absent>>,
      <<Dir755, Dir755, Absent>>, <<Dir755, Dir755, File644>> }

\* a call of the device-node directory primitive
DevCall(devDir, nodeInfoList) ==
    [prim |-> "_checkDevDirContent", fn |-> devDir, nodes |-> nodeInfoList]

\* a check of the device directory /d, itself claimed or not
InitDev ==
    /\ dirPrefix \in {Root, Mnt}
    /\ \E a \in AtNodeA, b \in AtNodeB, c \in AtOther :
          fs = Mounted(dirPrefix,
                       [rel \in {P1(D), P2(D, A), P2(D, B), P2(D, C), P3(D, C, A),
                                 P3(D, C, A) \o P1(A)} |->
                           CASE rel = P1(D) -> Dir755
                             [] rel = P2(D, A) -> a
                             [] rel = P2(D, B) -> b
                             [] rel = P2(D, C) -> c[1]
                             [] rel = P3(D, C, A) -> c[2]
                             [] OTHER -> c[3]])
    /\ invoked \in {DevCall(P1(D), l) : l \in {<<NodeA, NodeB>>, <<NodeA>>, <<>>}}
    /\ record \in {{}, {P1(D)}}

UpTo(x, y) == <<".", ".">> \o P2(x, y)

\* the link target x/../y: the entry y next to x, when x leads to a directory
Beside(x, y) == x \o P1(<<".", ".">>) \o P1(y)

\* a usr-merge check of /d against a, as that of /bin against usr/bin: what
\* is at /d and at /a, the entry b and what is beneath it on either side (a
\* link to the other side's b among them, and one that reaches it by way of
\* the entry c), and an entry c of the left side, a link to a/b at times
InitMerge ==
    /\ dirPrefix \in {Root, Mnt}
    /\ \E d \in {Absent, File644, Dir755, Entry("link", \o777, 0, 0, A, 0, 0),
                  Entry("link", \o777, 0, 0, B, 0, 0)},
          a \in {Absent, File644, Dir755},
          db \in {Absent, File644, Dir755, Entry("dir", \o700, 0, 0, <<>>, 0, 0),
                  Entry("link", \o777, 0, 0, UpTo(A, B), 0, 0),
                  Entry("link", \o777, 0, 0, Beside(C, B), 0, 0)},
          ab \in {Absent, File644, Dir755, Entry("link", \o777, 0, 0, UpTo(D, B), 0, 0)},
          dbc \in {Absent, File644},
          abc \in {Absent, File644, Dir755},
          dc \in {Absent, File644, Entry("link", \o777, 0, 0, UpTo(A, B), 0, 0)} :
          /\ d.kind # "dir" => (db = Absent /\ dc = Absent)
          /\ a.kind # "dir" => ab = Absent
          /\ db.kind # "dir" => dbc = Absent
          /\ ab.kind # "dir" => abc = Absent
          /\ fs = Mounted(dirPrefix,
                          [rel \in {P1(D), P1(A), P2(D, B), P2(A, B), P3(D, B, C), P3(A, B, C),
                                    P2(D, C)} |->
                              CASE rel = P1(D) -> d
                                [] rel = P1(A) -> a
                                [] rel = P2(D, B) -> db
                                [] rel = P2(A, B) -> ab
                                [] rel = P3(D, B, C) -> dbc
                                [] rel = P3(A, B, C) -> abc
                                [] OTHER -> dc])
    /\ invoked \in {Call("_checkUsrMergeSymlink", P1(D), NoMode, og, og, A) :
                        og \in {None, Named(RootName)}}
    /\ record = {}

InitPrim ==
    /\ (InitBasic \/ InitSweep \/ InitDev \/ InitMerge)
    /\ bAutoFix \in BOOLEAN
    /\ listRev \in BOOLEAN
    /\ InSession
    /\ errs = <<>>
    /\ pc = "ready"
    /\ op = "init"
    /\ ret = Returned(<<>>)
    /\ wildcards1 = <<>>
    /\ wildcards2 = <<>>
    /\ name = <<>>
    /\ names = <<>>
    /\ tree = NoTree
    /\ listed = <<>>

\* the session as the call finds it: errs holds the messages of one call
Before == Session(fs, record, <<>>, "")

\* the call has been made and has left the session as s
Made(s) ==
    /\ pc \in {"ready", "once"}
    /\ pc' = IF pc = "ready" THEN "once" ELSE "twice"
    /\ op' = invoked.prim
    /\ fs' = s.fs
    /\ record' = s.record
    /\ errs' = s.errs
    /\ ret' = IF s.exc = "" THEN Returned(<<>>) ELSE Raised(s.exc)
    /\ UNCHANGED <<wildcards1, wildcards2, name, names, tree, listRev, dirPrefix, listed,
                   fields, bAutoFix, invoked>>

CheckDir ==
    /\ invoked.prim = "_checkDir"
    /\ Made(checkDir(dirPrefix, bAutoFix, Before, invoked.fn, invoked.mode,
                     invoked.owner, invoked.group))

CheckFile ==
    /\ invoked.prim = "_checkFile"
    /\ Made(checkFile(dirPrefix, bAutoFix, Before, invoked.fn, invoked.mode,
                      invoked.owner, invoked.group))

CheckSymlink ==
    /\ invoked.prim = "_checkSymlink"
    /\ Made(checkSymlink(dirPrefix, bAutoFix, Before, invoked.fn, invoked.target,
                         invoked.owner, invoked.group))

\* no caller passes bIgnoreDotKeepFiles: the flag is at its default
CheckNoRedundantFilesWithoutRecursion ==
    /\ invoked.prim = "_checkNoRedundantFilesWithoutRecursion"
    /\ Made(checkNoRedundantFilesWithoutRecursion(dirPrefix, Before, invoked.fn, FALSE))

CheckDevDirContent ==
    /\ invoked.prim = "_checkDevDirContent"
    /\ Made(checkDevDirContent(dirPrefix, bAutoFix, Before, invoked.fn, invoked.nodes))

CheckUsrMergeSymlink ==
    /\ invoked.prim = "_checkUsrMergeSymlink"
    /\ Made(checkUsrMergeSymlink(dirPrefix, bAutoFix, Before, invoked.fn, invoked.target,
                                 invoked.owner, invoked.group))

NextPrim ==
    \/ CheckDir
    \/ CheckFile
    \/ CheckSymlink
    \/ CheckNoRedundantFilesWithoutRecursion
    \/ CheckDevDirContent
    \/ CheckUsrMergeSymlink

SpecPrim == InitPrim /\ [][NextPrim]_vars

---------------------------------------------------------------------------
(* RootFs.check: the batch checks of the files the wildcard walker selects  *)
(* in the file system of the session                                        *)

\* _wildcardsGlobImpl(curPath, wildcards, result) as a session runs it: the
\* walker of RootFs.wildcards_glob, reading the file system f.  The walk only
\* ever appends to result, so each call is held as the paths it appends, in
\* the order it appends them
RECURSIVE wildcardsGlobImplOn(_, _, _)
RECURSIVE GlobDirOn(_, _, _, _)
RECURSIVE GlobChildrenOn(_, _, _, _)
wildcardsGlobImplOn(f, curPath, wildcards) ==
    IF isRealDir(f, curPath)
    THEN GlobDirOn(f, curPath, wildcards,
                   ScanDir(curPath, wildcards, 1,
                           [bRecorded |-> FALSE, bRecursive |-> FALSE, result |-> <<>>]))
    ELSE ScanLeaf(curPath, wildcards, 1, <<>>)

\* the walk of a real directory after the loop over the rules left st
GlobDirOn(f, curPath, wildcards, st) ==
    IF st.bRecursive
    THEN st.result \o GlobChildrenOn(f, curPath, ListDir(f, curPath), wildcards)
    ELSE st.result

\* the loop over os.listdir(curPath)
GlobChildrenOn(f, curPath, fns, wildcards) ==
    IF fns = <<>> THEN <<>>
    ELSE wildcardsGlobImplOn(f, PathJoin(curPath, Head(fns)), wildcards)
         \o GlobChildrenOn(f, curPath, Tail(fns), wildcards)

\* _wildcardsGlob(wildcards) of the RootFs with root prefix self
wildcardsGlobOn(f, self, wildcards) ==
    LET wildcardsP == [i \in 1..Len(wildcards) |->
                          SliceTo(wildcards[i], 2) \o PathJoin(self, SliceFrom(wildcards[i], 3))]
    IN  wildcardsGlob(self, wildcardsGlobImplOn(f, self, wildcardsP))

\* the ids pwd.getpwuid and grp.getgrgid know
PwUid == {PwNam[n] : n \in DOMAIN PwNam}
GrGid == {GrNam[n] : n \in DOMAIN GrNam}

\* if cond: self.p._errCb("\"%s\" <text>" % (fn))
ReportIf(s, cond, fn, text) == IF cond THEN errCb(s, Msg(fn, text)) ELSE s

\* the SUID test of a regular file: bad
BadSuid(m) ==
    \/ ~Bit(m, \o100)
    \/ ~Bit(m, \o10) /\ (Bit(m, \o40) \/ Bit(m, \o20))
    \/ ~Bit(m, \o1) /\ (Bit(m, \o4) \/ Bit(m, \o2))

\* _batchCheckBasic, the common checks: owner and group are known, and the
\* permission bits m are sane
CommonChecks(s, fn, uid, gid, m) ==
    ReportIf(
      ReportIf(
        ReportIf(
          ReportIf(
            ReportIf(
              ReportIf(
                ReportIf(
                  ReportIf(s, uid \notin PwUid, fn, "has an invalid owner."),
                  gid \notin GrGid, fn, "has an invalid group."),
                ~Bit(m, \o400), fn, "is not readable by owner."),
              ~Bit(m, \o40) /\ Bit(m, \o20), fn, "is not readable but writable by group."),
            ~Bit(m, \o4) /\ Bit(m, \o2), fn, "is not readable but writable by other."),
          ~Bit(m, \o40) /\ (Bit(m, \o4) \/ Bit(m, \o2)), fn,
          "is not readable by group but readable/writable by other."),
        ~Bit(m, \o20) /\ Bit(m, \o2), fn, "is not writable by group but writable by other."),
      Bit(m, \o1000), fn, "should not have sticky bit set.")

\* _batchCheckBasic, the dedicated check of the kind of file that lstat
\* found; followed says whether os.path.exists holds of the path. The message
\* "Type of \"%s\" is invalid." is held as Msg(fn, "Type is invalid.")
DedicatedCheck(s, fn, st, followed) ==
    IF st.kind = "link"
    THEN ReportIf(ReportIf(s, ~followed, fn, "is a broken symlink."),
                  st.mode # \o777, fn, "has invalid permission.")
    ELSE IF st.kind = "dir"
    THEN ReportIf(s, Bit(st.mode, \o4000), fn, "should not have SUID bit set.")
    ELSE IF st.kind = "file"
    THEN ReportIf(s, Bit(st.mode, \o4000) /\ BadSuid(st.mode), fn,
                  "is not appropriate for SUID bit.")
    ELSE errCb(s, Msg(fn, "Type is invalid."))

\* _batchCheckBasic(fn): the message "Type of \"%s\" is invalid." is held as
\* Msg(fn, "Type is invalid.")
batchCheckBasic(pre, s, fn) ==
    IF ~validPath(fn) THEN Raise(s, "AssertionError")
    ELSE With(lstat(s.fs, fn2fullfn(pre, fn)),
              LAMBDA st :
                 IF st.kind = "absent" THEN Raise(s, "OSError")
                 ELSE With(CommonChecks(s, fn, st.uid, st.gid, st.mode),
                           LAMBDA s1 : DedicatedCheck(s1, fn, st, exists(s.fs, fn2fullfn(pre, fn)))))

\* _batchCheckOwnerGroup(fn, owner, group)
batchCheckOwnerGroup(pre, auto, s, fn, owner, group) ==
    IF ~validPath(fn) THEN Raise(s, "AssertionError")
    ELSE checkOwnerGroup(auto, s, fn, fn2fullfn(pre, fn), owner, group)

\* _batchCheckOwnerGroup(fn, owner, owner) where the loop has it, after
\* _batchCheckBasic(fn) left the session s1
BatchOwner(pre, auto, s1, fn, owner) ==
    IF s1.exc # "" \/ owner.t = "none" THEN s1
    ELSE batchCheckOwnerGroup(pre, auto, s1, fn, owner, owner)

\* for fn in fns: _batchCheckBasic(fn), and _batchCheckOwnerGroup(fn, owner,
\* owner) where the loop has it, from path i of fns on
RECURSIVE BatchLoop(_, _, _, _, _, _)
BatchLoop(pre, auto, s, fns, i, owner) ==
    IF i > Len(fns) \/ s.exc # "" THEN s
    ELSE BatchLoop(pre, auto,
                   BatchOwner(pre, auto, batchCheckBasic(pre, s, fns[i]), fns[i], owner),
                   fns, i + 1, owner)

\* the names of the paths the check methods handle
Boot == <<"b", "o", "o", "t">>
Dev == <<"d", "e", "v">>
Etc == <<"e", "t", "c">>
Hostname == <<"h", "o", "s", "t", "n", "a", "m", "e">>
Home == <<"h", "o", "m", "e">>
Lib64 == <<"l", "i", "b", "6", "4">>
MntDir == <<"m", "n", "t">>
Opt == <<"o", "p", "t">>
Proc == <<"p", "r", "o", "c">>
RootDir == <<"r", "o", "o", "t">>
Run == <<"r", "u", "n">>
Lock == <<"l", "o", "c", "k">>
User == <<"u", "s", "e", "r">>
Sbin == <<"s", "b", "i", "n">>
Sys == <<"s", "y", "s">>
Tmp == <<"t", "m", "p">>
Games == <<"g", "a", "m", "e", "s">>
Include == <<"i", "n", "c", "l", "u", "d", "e">>
Libexec == <<"l", "i", "b", "e", "x", "e", "c">>
Local == <<"l", "o", "c", "a", "l">>
Man == <<"m", "a", "n">>
Share == <<"s", "h", "a", "r", "e">>
Var == <<"v", "a", "r">>
Cache == <<"c", "a", "c", "h", "e">>
Db == <<"d", "b">>
Empty == <<"e", "m", "p", "t", "y">>
Log == <<"l", "o", "g">>
Spool == <<"s", "p", "o", "o", "l">>
Www == <<"w", "w", "w">>
Console == <<"c", "o", "n", "s", "o", "l", "e">>
Null == <<"n", "u", "l", "l">>

\* the relative path ".."
DotDot == <<".", ".">>

\* the statements of a check method: a call of a primitive; an if without
\* else, whose body is the next skip statements; a for loop over
\* self._fullListDir(dir) with the named body; the batch check of the files
\* the named wildcards select
Do(c) == [kind |-> "call", call |-> c]
IfExists(fn, n) == [kind |-> "if", cond |-> "_exists", arg |-> fn, skip |-> n]
IfLive(path, n) == [kind |-> "if", cond |-> "os.path.exists", arg |-> path, skip |-> n]
IfFlag(flag, n) == [kind |-> "if", cond |-> flag, arg |-> <<>>, skip |-> n]
ForEach(dir, body) == [kind |-> "for", dir |-> dir, body |-> body]
Files(wildcards) == [kind |-> "files", wildcards |-> wildcards]

\* RootFs._doCheckLayout(): its statements, in order
doCheckLayout ==
    <<
      Do(Call("_checkDir", Root, \o755, Named(RootName), Named(RootName), <<>>)),
      Do(Call("_checkSymlink", P1(Bin), NoMode, Named(RootName), Named(RootName), Usr \o P1(Bin))),
      Do(Call("_checkDir", P1(Boot), \o755, Named(RootName), Named(RootName), <<>>)),
      Do(Call("_checkDir", P1(Dev), \o755, Named(RootName), Named(RootName), <<>>)),
      Do(Call("_checkDir", P1(Etc), \o755, Named(RootName), Named(RootName), <<>>)),
      Do(Call("_checkFile", P2(Etc, Hostname), \o644, Named(RootName), Named(RootName), <<>>)),
      Do(Call("_checkDir", P1(Home), \o755, Named(RootName), Named(RootName), <<>>)),
      ForEach(P1(Home), "userName"),
      Do(Call("_checkSymlink", P1(Lib), NoMode, Named(RootName), Named(RootName), Usr \o P1(Lib))),
      Do(Call("_checkSymlink", P1(Lib64), NoMode, Named(RootName), Named(RootName), Usr \o P1(Lib64))),
      Do(Call("_checkDir", P1(MntDir), \o755, Named(RootName), Named(RootName), <<>>)),
      Do(Call("_checkDir", P1(Opt), \o755, Named(RootName), Named(RootName), <<>>)),
      Do(Call("_checkDir", P1(Proc), \o555, Named(RootName), Named(RootName), <<>>)),
      Do(Call("_checkDir", P1(RootDir), \o700, Named(RootName), Named(RootName), <<>>)),
      Do(Call("_checkDir", P1(Run), \o755, Named(RootName), Named(RootName), <<>>)),
      IfFlag("True", 4),
      Do(Call("_checkDir", P2(Run, Lock), \o755, Named(RootName), Named(RootName), <<>>)),
      IfLive(P2(Run, User), 2),
      Do(Call("_checkDir", P2(Run, User), \o755, Named(RootName), Named(RootName), <<>>)),
      ForEach(P2(Run, User), "userId"),
      Do(Call("_checkSymlink", P1(Sbin), NoMode, Named(RootName), Named(RootName), Usr \o P1(Sbin))),
      Do(Call("_checkDir", P1(Sys), \o555, Named(RootName), Named(RootName), <<>>)),
      Do(Call("_checkDir", P1(Tmp), \o1777, Named(RootName), Named(RootName), <<>>)),
      Do(Call("_checkDir", P1(Usr), \o755, Named(RootName), Named(RootName), <<>>)),
      Do(Call("_checkDir", P2(Usr, Bin), \o755, Named(RootName), Named(RootName), <<>>)),
      IfExists(P2(Usr, Games), 3),
      Do(Call("_checkDir", P2(Usr, Games), \o755, Named(RootName), Named(RootName), <<>>)),
      IfExists(P3(Usr, Games, Bin), 1),
      Do(Call("_checkDir", P3(Usr, Games, Bin), \o755, Named(RootName), Named(RootName), <<>>)),
      IfExists(P2(Usr, Include), 1),
      Do(Call("_checkDir", P2(Usr, Include), \o755, Named(RootName), Named(RootName), <<>>)),
      Do(Call("_checkDir", P2(Usr, Lib), \o755, Named(RootName), Named(RootName), <<>>)),
      Do(Call("_checkDir", P2(Usr, Lib64), \o755, Named(RootName), Named(RootName), <<>>)),
      Do(Call("_checkDir", P2(Usr, Libexec), \o755, Named(RootName), Named(RootName), <<>>)),
      IfExists(P2(Usr, Local), 21),
      Do(Call("_checkDir", P2(Usr, Local), \o755, Named(RootName), Named(RootName), <<>>)),
      IfExists(P3(Usr, Local, Bin), 1),
      Do(Call("_checkDir", P3(Usr, Local, Bin), \o755, Named(RootName), Named(RootName), <<>>)),
      IfExists(P3(Usr, Local, Etc), 1),
      Do(Call("_checkDir", P3(Usr, Local, Etc), \o755, Named(RootName), Named(RootName), <<>>)),
      IfExists(P3(Usr, Local, Games), 1),
      Do(Call("_checkDir", P3(Usr, Local, Games), \o755, Named(RootName), Named(RootName), <<>>)),
      IfExists(P3(Usr, Local, Include), 1),
      Do(Call("_checkDir", P3(Usr, Local, Include), \o755, Named(RootName), Named(RootName), <<>>)),
      IfExists(P3(Usr, Local, Lib), 1),
      Do(Call("_checkDir", P3(Usr, Local, Lib), \o755, Named(RootName), Named(RootName), <<>>)),
      IfExists(P3(Usr, Local, Lib64), 1),
      Do(Call("_checkDir", P3(Usr, Local, Lib64), \o755, Named(RootName), Named(RootName), <<>>)),
      IfExists(P3(Usr, Local, Man), 1),
      Do(Call("_checkDir", P3(Usr, Local, Man), \o755, Named(RootName), Named(RootName), <<>>)),
      IfExists(P3(Usr, Local, Sbin), 1),
      Do(Call("_checkDir", P3(Usr, Local, Sbin), \o755, Named(RootName), Named(RootName), <<>>)),
      IfExists(P3(Usr, Local, Share), 1),
      Do(Call("_checkDir", P3(Usr, Local, Share), \o755, Named(RootName), Named(RootName), <<>>)),
      IfExists(P3(Usr, Local, Src), 1),
      Do(Call("_checkDir", P3(Usr, Local, Src), \o755, Named(RootName), Named(RootName), <<>>)),
      Do(Call("_checkSymlink", P2(Usr, Sbin), NoMode, Named(RootName), Named(RootName), Bin)),
      Do(Call("_checkDir", P2(Usr, Share), \o755, Named(RootName), Named(RootName), <<>>)),
      IfExists(P2(Usr, Src), 1),
      Do(Call("_checkDir", P2(Usr, Src), \o755, Named(RootName), Named(RootName), <<>>)),
      ForEach(P1(Usr), "toolchain"),
      Do(Call("_checkDir", P1(Var), \o755, Named(RootName), Named(RootName), <<>>)),
      IfExists(P2(Var, Cache), 1),
      Do(Call("_checkDir", P2(Var, Cache), \o755, Named(RootName), Named(RootName), <<>>)),
      IfExists(P2(Var, Db), 1),
      Do(Call("_checkDir", P2(Var, Db), \o755, Named(RootName), Named(RootName), <<>>)),
      Do(Call("_checkDir", P2(Var, Empty), \o755, Named(RootName), Named(RootName), <<>>)),
      Do(Call("_checkDirIsEmpty", P2(Var, Empty), NoMode, None, None, <<>>)),
      IfExists(P2(Var, Games), 1),
      Do(Call("_checkDir", P2(Var, Games), \o755, Named(RootName), Named(RootName), <<>>)),
      IfExists(P2(Var, Lib), 1),
      Do(Call("_checkDir", P2(Var, Lib), \o755, Named(RootName), Named(RootName), <<>>)),
      Do(Call("_checkSymlink", P2(Var, Lock), NoMode, Named(RootName), Named(RootName), DotDot \o P2(Run, Lock))),
      IfExists(P2(Var, Log), 1),
      Do(Call("_checkDir", P2(Var, Log), \o755, Named(RootName), Named(RootName), <<>>)),
      Do(Call("_checkSymlink", P2(Var, Run), NoMode, Named(RootName), Named(RootName), DotDot \o P1(Run))),
      IfExists(P2(Var, Spool), 1),
      Do(Call("_checkDir", P2(Var, Spool), \o755, Named(RootName), Named(RootName), <<>>)),
      Do(Call("_checkDir", P2(Var, Tmp), \o1777, Named(RootName), Named(RootName), <<>>)),
      IfExists(P2(Var, Www), 1),
      Do(Call("_checkDir", P2(Var, Www), \o775, Named(RootName), Named(RootName), <<>>)),
      Do(Call("_checkNoRedundantFilesWithoutRecursion", Root, NoMode, None, None, <<>>)),
      Do(Call("_checkNoRedundantFilesWithoutRecursion", P1(Usr), NoMode, None, None, <<>>)),
      IfExists(P2(Usr, Local), 1),
      Do(Call("_checkNoRedundantFilesWithoutRecursion", P2(Usr, Local), NoMode, None, None, <<>>)),
      Do(Call("_checkNoRedundantFilesWithoutRecursion", P1(Var), NoMode, None, None, <<>>))
    >>

\* the try block of RootFs.check: _doCheckLayout(), _doCheckSystemFiles()
\* and, if deep_check, _doCheckSystemDataFiles() and _doCheckUserDataFiles()
RootFsCheckBody ==
    doCheckLayout
    \o << Files("_getWildcardsSystemBasic"),
          IfFlag("deep_check", 2),
          Files("_getWildcardsSystemData"),
          ForEach(P1(Home), "userFiles") >>

\* the statements of the try block of PreMountRootFs.check, in order
PreMountCheckBody ==
    <<
      Do(Call("_checkUsrMergeSymlink", P1(Bin), NoMode, None, None, Usr \o P1(Bin))),
      Do(Call("_checkDir", P1(Boot), NoMode, None, None, <<>>)),
      IfFlag("_bMountBoot", 1),
      Do(Call("_checkDirIsEmpty", P1(Boot), NoMode, None, None, <<>>)),
      Do(Call("_checkDir", P1(Dev), NoMode, None, None, <<>>)),
      Do(DevCall(P1(Dev),
                 <<NodeInfo(Console, "c", 5, 1, \o600, Named(RootName), Named(RootName)),
                   NodeInfo(Null, "c", 1, 3, \o666, Named(RootName), Named(RootName))>>)),
      Do(Call("_checkDir", P1(Etc), NoMode, None, None, <<>>)),
      IfFlag("_bMountEtc", 1),
      Do(Call("_checkDirIsEmpty", P1(Etc), NoMode, None, None, <<>>)),
      Do(Call("_checkDir", P1(Home), NoMode, None, None, <<>>)),
      IfFlag("_bMountHome", 1),
      ForEach(P1(Home), "empty"),
      Do(Call("_checkUsrMergeSymlink", P1(Lib), NoMode, None, None, Usr \o P1(Lib))),
      Do(Call("_checkUsrMergeSymlink", P1(Lib64), NoMode, None, None, Usr \o P1(Lib64))),
      Do(Call("_checkDir", P1(MntDir), NoMode, None, None, <<>>)),
      Do(Call("_checkDirIsEmpty", P1(MntDir), NoMode, None, None, <<>>)),
      Do(Call("_checkDir", P1(Opt), NoMode, None, None, <<>>)),
      Do(Call("_checkDir", P1(Proc), NoMode, None, None, <<>>)),
      Do(Call("_checkDirIsEmpty", P1(Proc), NoMode, None, None, <<>>)),
      Do(Call("_checkDir", P1(RootDir), NoMode, None, None, <<>>)),
      IfFlag("_bMountHome", 1),
      Do(Call("_checkDirIsEmpty", P1(RootDir), NoMode, None, None, <<>>)),
      Do(Call("_checkDir", P1(Run), NoMode, None, None, <<>>)),
      Do(Call("_checkDirIsEmpty", P1(Run), NoMode, None, None, <<>>)),
      Do(Call("_checkUsrMergeSymlink", P1(Sbin), NoMode, None, None, Usr \o P1(Sbin))),
      Do(Call("_checkDir", P1(Sys), NoMode, None, None, <<>>)),
      Do(Call("_checkDirIsEmpty", P1(Sys), NoMode, None, None, <<>>)),
      Do(Call("_checkDir", P1(Tmp), NoMode, None, None, <<>>)),
      Do(Call("_checkDirIsEmpty", P1(Tmp), NoMode, None, None, <<>>)),
      Do(Call("_checkDir", P1(Usr), NoMode, None, None, <<>>)),
      Do(Call("_checkDir", P2(Usr, Bin), NoMode, None, None, <<>>)),
      IfExists(P2(Usr, Games), 3),
      Do(Call("_checkDir", P2(Usr, Games), NoMode, None, None, <<>>)),
      IfExists(P3(Usr, Games, Bin), 1),
      Do(Call("_checkDir", P3(Usr, Games, Bin), NoMode, None, None, <<>>)),
      IfExists(P2(Usr, Include), 1),
      Do(Call("_checkDir", P2(Usr, Include), NoMode, None, None, <<>>)),
      Do(Call("_checkDir", P2(Usr, Lib), NoMode, None, None, <<>>)),
      Do(Call("_checkDir", P2(Usr, Lib64), NoMode, None, None, <<>>)),
      Do(Call("_checkDir", P2(Usr, Libexec), NoMode, None, None, <<>>)),
      IfExists(P2(Usr, Local), 21),
      Do(Call("_checkDir", P2(Usr, Local), NoMode, None, None, <<>>)),
      IfExists(P3(Usr, Local, Bin), 1),
      Do(Call("_checkDir", P3(Usr, Local, Bin), NoMode, None, None, <<>>)),
      IfExists(P3(Usr, Local, Etc), 1),
      Do(Call("_checkDir", P3(Usr, Local, Etc), NoMode, None, None, <<>>)),
      IfExists(P3(Usr, Local, Games), 1),
      Do(Call("_checkDir", P3(Usr, Local, Games), NoMode, None, None, <<>>)),
      IfExists(P3(Usr, Local, Include), 1),
      Do(Call("_checkDir", P3(Usr, Local, Include), NoMode, None, None, <<>>)),
      IfExists(P3(Usr, Local, Lib), 1),
      Do(Call("_checkDir", P3(Usr, Local, Lib), NoMode, None, None, <<>>)),
      IfExists(P3(Usr, Local, Lib64), 1),
      Do(Call("_checkDir", P3(Usr, Local, Lib64), NoMode, None, None, <<>>)),
      IfExists(P3(Usr, Local, Man), 1),
      Do(Call("_checkDir", P3(Usr, Local, Man), NoMode, None, None, <<>>)),
      IfExists(P3(Usr, Local, Sbin), 1),
      Do(Call("_checkDir", P3(Usr, Local, Sbin), NoMode, None, None, <<>>)),
      IfExists(P3(Usr, Local, Share), 1),
      Do(Call("_checkDir", P3(Usr, Local, Share), NoMode, None, None, <<>>)),
      IfExists(P3(Usr, Local, Src), 1),
      Do(Call("_checkDir", P3(Usr, Local, Src), NoMode, None, None, <<>>)),
      Do(Call("_checkUsrMergeSymlink", P2(Usr, Sbin), NoMode, None, None, Bin)),
      Do(Call("_checkDir", P2(Usr, Share), NoMode, None, None, <<>>)),
      IfExists(P2(Usr, Src), 1),
      Do(Call("_checkDir", P2(Usr, Src), NoMode, None, None, <<>>)),
      ForEach(P1(Usr), "toolchainAny"),
      Do(Call("_checkDir", P1(Var), NoMode, None, None, <<>>)),
      IfExists(P2(Var, Cache), 3),
      Do(Call("_checkDir", P2(Var, Cache), NoMode, None, None, <<>>)),
      IfFlag("_bMountVar", 1),
      Do(Call("_checkDirIsEmpty", P2(Var, Cache), NoMode, None, None, <<>>)),
      IfExists(P2(Var, Db), 3),
      Do(Call("_checkDir", P2(Var, Db), NoMode, None, None, <<>>)),
      IfFlag("_bMountVar", 1),
      Do(Call("_checkDirIsEmpty", P2(Var, Db), NoMode, None, None, <<>>)),
      Do(Call("_checkDir", P2(Var, Empty), NoMode, None, None, <<>>)),
      Do(Call("_checkDirIsEmpty", P2(Var, Empty), NoMode, None, None, <<>>)),
      IfExists(P2(Var, Games), 3),
      Do(Call("_checkDir", P2(Var, Games), NoMode, None, None, <<>>)),
      IfFlag("_bMountVar", 1),
      Do(Call("_checkDirIsEmpty", P2(Var, Games), NoMode, None, None, <<>>)),
      IfExists(P2(Var, Lib), 3),
      Do(Call("_checkDir", P2(Var, Lib), NoMode, None, None, <<>>)),
      IfFlag("_bMountVar", 1),
      Do(Call("_checkDirIsEmpty", P2(Var, Lib), NoMode, None, None, <<>>)),
      Do(Call("_checkSymlink", P2(Var, Lock), NoMode, None, None, DotDot \o P2(Run, Lock))),
      IfExists(P2(Var, Log), 3),
      Do(Call("_checkDir", P2(Var, Log), NoMode, None, None, <<>>)),
      IfFlag("_bMountVar", 1),
      Do(Call("_checkDirIsEmpty", P2(Var, Log), NoMode, None, None, <<>>)),
      Do(Call("_checkSymlink", P2(Var, Run), NoMode, None, None, DotDot \o P1(Run))),
      IfExists(P2(Var, Spool), 3),
      Do(Call("_checkDir", P2(Var, Spool), NoMode, None, None, <<>>)),
      IfFlag("_bMountVar", 1),
      Do(Call("_checkDirIsEmpty", P2(Var, Spool), NoMode, None, None, <<>>)),
      Do(Call("_checkDir", P2(Var, Tmp), NoMode, None, None, <<>>)),
      IfFlag("_bMountVar", 1),
      Do(Call("_checkDirIsEmpty", P2(Var, Tmp), NoMode, None, None, <<>>)),
      IfExists(P2(Var, Www), 3),
      Do(Call("_checkDir", P2(Var, Www), NoMode, None, None, <<>>)),
      IfFlag("_bMountVar", 1),
      Do(Call("_checkDirIsEmpty", P2(Var, Www), NoMode, None, None, <<>>)),
      Do(Call("_checkNoRedundantFilesWithoutRecursion", Root, NoMode, None, None, <<>>)),
      Do(Call("_checkNoRedundantFilesWithoutRecursion", P1(Dev), NoMode, None, None, <<>>)),
      Do(Call("_checkNoRedundantFilesWithoutRecursion", P1(Usr), NoMode, None, None, <<>>)),
      IfExists(P2(Usr, Local), 1),
      Do(Call("_checkNoRedundantFilesWithoutRecursion", P2(Usr, Local), NoMode, None, None, <<>>)),
      Do(Call("_checkNoRedundantFilesWithoutRecursion", P1(Var), NoMode, None, None, <<>>))
    >>
\* _isToolChainName(name)
isToolChainName(nm) ==
    nm \in { <<"i", "6", "8", "6", "-", "p", "c", "-", "l", "i", "n", "u", "x", "-", "g", "n", "u">>,
            <<"x", "8", "6", "_", "6", "4", "-", "p", "c", "-", "l", "i", "n", "u", "x", "-",
              "g", "n", "u">>,
            <<"x", "8", "6", "_", "6", "4", "-", "w", "6", "4", "-", "m", "i", "n", "g", "w",
              "3", "2">> }

\* int(s) of a name: the number a string of decimal digits denotes; -1
\* where int raises ValueError
Digits == <<"0", "1", "2", "3", "4", "5", "6", "7", "8", "9">>

RECURSIVE IntOf(_, _)
IntOf(s, acc) ==
    IF s = <<>> THEN acc
    ELSE IF \E d \in 1..10 : Digits[d] = Head(s)
    THEN IntOf(Tail(s), 10 * acc + (CHOOSE d \in 1..10 : Digits[d] = Head(s)) - 1)
    ELSE -1

int(s) == IF s = <<>> THEN -1 ELSE IntOf(s, 0)

\* _getWildcardsSystemBasic()
getWildcardsSystemBasic ==
    << Plus \o P1(Boot) \o Stars2, Plus \o P1(Usr) \o Stars2, Plus \o P1(Opt) \o Stars2 >>

\* _getWildcardsSystemData()
getWildcardsSystemData(pre, f) ==
    (IF lexists(f, fn2fullfn(pre, P2(Var, Db))) THEN <<Plus \o P2(Var, Db) \o Stars2>> ELSE <<>>)
    \o (IF lexists(f, fn2fullfn(pre, P2(Var, Lib))) THEN <<Plus \o P2(Var, Lib) \o Stars2>>
        ELSE <<>>)
    \o (IF lexists(f, fn2fullfn(pre, P2(Var, Log))) THEN <<Plus \o P2(Var, Log) \o Stars2>>
        ELSE <<>>)

\* _getWildcardsUser(user) of a user name: the loop over _fullListDir("/home")
\* from path i of list on
RECURSIVE UserHomeRules(_, _, _)
UserHomeRules(user, list, i) ==
    IF i > Len(list) THEN <<>>
    ELSE (IF user = basename(list[i]) THEN <<Plus \o list[i] \o Stars3>> ELSE <<>>)
         \o UserHomeRules(user, list, i + 1)

getWildcardsUser(pre, f, user) ==
    (IF user = RootName THEN <<Plus \o P1(RootDir) \o Stars2>> ELSE <<>>)
    \o UserHomeRules(user, fullListDir(pre, f, P1(Home), FALSE), 1)

\* a call of a primitive, made on the session s
Perform(pre, auto, s, c) ==
    CASE c.prim = "_checkDir" -> checkDir(pre, auto, s, c.fn, c.mode, c.owner, c.group)
      [] c.prim = "_checkFile" -> checkFile(pre, auto, s, c.fn, c.mode, c.owner, c.group)
      [] c.prim = "_checkSymlink" -> checkSymlink(pre, auto, s, c.fn, c.target, c.owner, c.group)
      [] c.prim = "_checkUsrMergeSymlink" ->
            checkUsrMergeSymlink(pre, auto, s, c.fn, c.target, c.owner, c.group)
      [] c.prim = "_checkDirIsEmpty" -> checkDirIsEmpty(pre, s, c.fn)
      [] c.prim = "_checkDevDirContent" -> checkDevDirContent(pre, auto, s, c.fn, c.nodes)
      [] c.prim = "_checkNoRedundantFilesWithoutRecursion" ->
            checkNoRedundantFilesWithoutRecursion(pre, s, c.fn, FALSE)

\* the mode and the owner (and group) the _checkDir call of a loop body names
LoopMode(body) ==
    CASE body = "userName" -> \o700
      [] body = "userId" -> \o700
      [] body = "toolchain" -> \o755
      [] OTHER -> NoMode

LoopOwner(body, fn) ==
    CASE body = "userName" -> Named(basename(fn))
      [] body = "userId" -> Id(int(basename(fn)))
      [] body = "toolchain" -> Named(RootName)
      [] OTHER -> None

\* the body of a for loop, run for the listed path fn: a _checkDir call with
\* the owner taken from the name (as a user name, or a user id through int),
\* a _checkDir call if the name is that of a toolchain, _checkDirIsEmpty, or
\* the batch check of the files of user basename(fn)
LoopBody(pre, auto, s, body, fn) ==
    IF body = "empty" THEN checkDirIsEmpty(pre, s, fn)
    ELSE IF body = "userFiles"
    THEN With(getWildcardsUser(pre, s.fs, basename(fn)),
              LAMBDA wildcards :
                 IF wildcards = <<>> THEN Raise(s, "AssertionError")
                 ELSE BatchLoop(pre, auto, s, wildcardsGlobOn(s.fs, pre, wildcards), 1,
                                Named(basename(fn))))
    ELSE IF body = "userId" /\ int(basename(fn)) < 0 THEN Raise(s, "ValueError")
    ELSE IF body \in {"toolchain", "toolchainAny"} /\ ~isToolChainName(basename(fn)) THEN s
    ELSE checkDir(pre, auto, s, fn, LoopMode(body), LoopOwner(body, fn), LoopOwner(body, fn))

\* for fn in list: the body, from path i of list on
RECURSIVE LoopOver(_, _, _, _, _, _)
LoopOver(pre, auto, s, body, list, i) ==
    IF i > Len(list) \/ s.exc # "" THEN s
    ELSE LoopOver(pre, auto, LoopBody(pre, auto, s, body, list[i]), body, list, i + 1)

\* the arguments of a check call: the class of the object and how it was
\* constructed, the arguments of check, and which call on the object it is
CheckCall(class, deep_check, auto_fix, boot, etc, home, var, nth) ==
    [class |-> class, deep_check |-> deep_check, auto_fix |-> auto_fix,
     _bMountBoot |-> boot, _bMountEtc |-> etc, _bMountHome |-> home, _bMountVar |-> var,
     nth |-> nth]

\* the test of an if statement
Cond(pre, inv, f, st) ==
    CASE st.cond = "_exists" -> lexists(f, fn2fullfn(pre, st.arg))
      [] st.cond = "os.path.exists" -> exists(f, st.arg)
      [] st.cond = "True" -> TRUE
      [] OTHER -> inv[st.cond]

\* the wildcards a batch check selects its files with
WildcardsOf(pre, f, which) ==
    IF which = "_getWildcardsSystemBasic" THEN getWildcardsSystemBasic
    ELSE getWildcardsSystemData(pre, f)

\* the statements of the try block of the check method called
Body(inv) == IF inv.class = "RootFs" THEN RootFsCheckBody ELSE PreMountCheckBody

\* where the finally clause stands
AtFinally(inv) == Len(Body(inv)) + 1

\* the statement st, run on the session s: the session it leaves
RunStatement(pre, auto, s, st) ==
    CASE st.kind = "call" -> Perform(pre, auto, s, st.call)
      [] st.kind = "if" -> s
      [] st.kind = "for" ->
            IF ~IsDir(s.fs, fn2fullfn(pre, st.dir)) THEN Raise(s, "OSError")
            ELSE LoopOver(pre, auto, s, st.body, fullListDir(pre, s.fs, st.dir, FALSE), 1)
      [] st.kind = "files" ->
            BatchLoop(pre, auto, s,
                      wildcardsGlobOn(s.fs, pre, WildcardsOf(pre, s.fs, st.wildcards)),
                      1, None)

\* the statement that runs after statement i, st, which found the file system
\* f and left the session s1: an exception leads to the finally clause
Onward(pre, inv, f, st, s1, i) ==
    [s |-> s1,
     pc |-> IF s1.exc # "" THEN AtFinally(inv)
            ELSE IF st.kind = "if" /\ ~Cond(pre, inv, f, st) THEN i + 1 + st.skip
            ELSE i + 1]

\* statement i of the try block, run on the session s
Exec(pre, auto, inv, s, i) ==
    Onward(pre, inv, s.fs, Body(inv)[i], RunStatement(pre, auto, s, Body(inv)[i]), i)

---------------------------------------------------------------------------
(* The check session as a state machine: a file system, a root prefix and   *)
(* a check call are drawn; the call runs statement by statement, and is     *)
(* made again when it has ended                                             *)

\* most check calls made on one object
MaxChecks == 2

\* a symbolic link of root with the given target
LinkTo(t) == Entry("link", \o777, 0, 0, t, 0, 0)

\* an image that has every path RootFs.check asks for, as it asks for it,
\* and the two device nodes PreMountRootFs.check asks for
GoodImage ==
    (P1(Bin) :> LinkTo(Usr \o P1(Bin)))
    @@ (P1(Boot) :> Dir755)
    @@ (P1(Dev) :> Dir755)
    @@ (P2(Dev, Console) :> Entry("chr", \o600, 0, 0, <<>>, 5, 1))
    @@ (P2(Dev, Null) :> Entry("chr", \o666, 0, 0, <<>>, 1, 3))
    @@ (P1(Etc) :> Dir755)
    @@ (P2(Etc, Hostname) :> File644)
    @@ (P1(Home) :> Dir755)
    @@ (P1(Lib) :> LinkTo(Usr \o P1(Lib)))
    @@ (P1(Lib64) :> LinkTo(Usr \o P1(Lib64)))
    @@ (P1(MntDir) :> Dir755)
    @@ (P1(Opt) :> Dir755)
    @@ (P1(Proc) :> Entry("dir", \o555, 0, 0, <<>>, 0, 0))
    @@ (P1(RootDir) :> Entry("dir", \o700, 0, 0, <<>>, 0, 0))
    @@ (P1(Run) :> Dir755)
    @@ (P2(Run, Lock) :> Dir755)
    @@ (P1(Sbin) :> LinkTo(Usr \o P1(Sbin)))
    @@ (P1(Sys) :> Entry("dir", \o555, 0, 0, <<>>, 0, 0))
    @@ (P1(Tmp) :> Entry("dir", \o1777, 0, 0, <<>>, 0, 0))
    @@ (P1(Usr) :> Dir755)
    @@ (P2(Usr, Bin) :> Dir755)
    @@ (P2(Usr, Lib) :> Dir755)
    @@ (P2(Usr, Lib64) :> Dir755)
    @@ (P2(Usr, Libexec) :> Dir755)
    @@ (P2(Usr, Sbin) :> LinkTo(Bin))
    @@ (P2(Usr, Share) :> Dir755)
    @@ (P1(Var) :> Dir755)
    @@ (P2(Var, Empty) :> Dir755)
    @@ (P2(Var, Lock) :> LinkTo(DotDot \o P2(Run, Lock)))
    @@ (P2(Var, Run) :> LinkTo(DotDot \o P1(Run)))
    @@ (P2(Var, Tmp) :> Entry("dir", \o1777, 0, 0, <<>>, 0, 0))

\* the image without the entry d and what is beneath it
Without(ents, d) ==
    [q \in {q \in DOMAIN ents : q # d /\ ~StartsWith(q, d \o <<"/">>)} |-> ents[q]]

\* the name of a toolchain directory, and of the per-user directory of user id 1
ToolChain ==
    <<"x", "8", "6", "_", "6", "4", "-", "p", "c", "-", "l", "i", "n", "u", "x", "-", "g", "n", "u">>
One == <<"1">>

\* what an image can have besides, or instead: /home a regular file; the
\* home of user a, with a file; the home of a user nobody knows; /usr/local
\* with bin; a toolchain directory of another owner; an entry nothing asks
\* for; /bin a real directory, with an entry /usr/bin has too or has not; a
\* per-user runtime directory; /etc/hostname of another mode and owner;
\* /var/db with a SUID file nobody may execute; a device node in /usr/bin
Additions ==
    { P1(Home) :> File644,
      (P2(Home, A) :> Entry("dir", \o700, 1, 1, <<>>, 0, 0))
         @@ (P3(Home, A, B) :> Entry("file", \o644, 1, 0, <<>>, 0, 0)),
      P2(Home, B) :> Entry("dir", \o700, 0, 0, <<>>, 0, 0),
      (P2(Usr, Local) :> Dir755) @@ (P3(Usr, Local, Bin) :> Entry("dir", \o700, 0, 0, <<>>, 0, 0)),
      P2(Usr, ToolChain) :> Entry("dir", \o755, 1, 1, <<>>, 0, 0),
      P1(C) :> File644,
      (P1(Bin) :> Dir755) @@ (P2(Bin, A) :> File644) @@ (P3(Usr, Bin, A) :> File644),
      (P1(Bin) :> Dir755) @@ (P2(Bin, A) :> File644),
      (P2(Run, User) :> Dir755) @@ (P3(Run, User, One) :> Entry("dir", \o700, 1, 1, <<>>, 0, 0)),
      (P2(Run, User) :> Dir755) @@ (P3(Run, User, A) :> Entry("dir", \o700, 1, 1, <<>>, 0, 0)),
      P2(Etc, Hostname) :> Entry("file", \o600, 1, 1, <<>>, 0, 0),
      (P2(Var, Db) :> Dir755) @@ (P3(Var, Db, A) :> Entry("file", \o4644, 2, 0, <<>>, 0, 0)),
      P3(Usr, Bin, C) :> Entry("chr", \o1620, 0, 2, <<>>, 1, 3) }

\* the images checked: the good one, that without one of its entries, and
\* that with an addition
Images ==
    {GoodImage}
    \cup {Without(GoodImage, d) :
            d \in {P1(Boot), P1(Home), P1(Usr), P1(Var), P2(Var, Empty), P2(Dev, Null),
                   P2(Usr, Sbin)}}
    \cup {more @@ GoodImage : more \in Additions}

\* what the live root can have of its own when the image is mounted at /m:
\* nothing, or the directories of a running system
LiveRoots ==
    { P1(Usr) :> Dir755,
      (P1(Boot) :> Dir755) @@ (P1(Opt) :> Dir755) @@ (P1(Usr) :> Dir755)
         @@ (P2(Usr, Bin) :> Dir755) @@ (P1(Run) :> Dir755) @@ (P2(Run, User) :> Dir755) }

\* the check calls: RootFs.check with or without deep_check, and
\* PreMountRootFs.check of an object made with all four mounted_ flags or none
CheckCalls ==
    {CheckCall("RootFs", deep, auto, TRUE, TRUE, TRUE, TRUE, 1) : deep, auto \in BOOLEAN}
    \cup {CheckCall("PreMountRootFs", FALSE, auto, m, m, m, m, 1) : auto, m \in BOOLEAN}

InitSession ==
    /\ \E image \in Images :
          \/ dirPrefix = Root /\ fs = Mounted(Root, image)
          \/ dirPrefix = Mnt /\ \E live \in LiveRoots : fs = Mounted(Mnt, image) @@ live
    /\ invoked \in CheckCalls
    /\ listRev = FALSE
    /\ fields = {}
    /\ bAutoFix = FALSE
    /\ record = {}
    /\ errs = <<>>
    /\ pc = 0
    /\ op = "init"
    /\ ret = Returned(<<>>)
    /\ wildcards1 = <<>>
    /\ wildcards2 = <<>>
    /\ name = <<>>
    /\ names = <<>>
    /\ tree = NoTree
    /\ listed = <<>>

\* check(...) is called: the session attributes are set
Check ==
    /\ pc = 0
    /\ invoked.nth <= MaxChecks
    /\ pc' = 1
    /\ op' = "check"
    /\ fields' = fields \cup {"_bAutoFix", "_errCb", "_record"}
    /\ bAutoFix' = invoked.auto_fix
    /\ record' = {}
    /\ errs' = <<>>
    /\ ret' = Returned(<<>>)
    /\ UNCHANGED <<wildcards1, wildcards2, name, names, tree, listRev, dirPrefix, listed,
                   fs, invoked>>

\* a statement has run and has left the session and the call as r says
Ran(r) ==
    /\ pc' = r.pc
    /\ fs' = r.s.fs
    /\ record' = r.s.record
    /\ errs' = r.s.errs
    /\ ret' = IF r.s.exc = "" THEN Returned(<<>>) ELSE Raised(r.s.exc)
    /\ UNCHANGED <<wildcards1, wildcards2, name, names, tree, listRev, dirPrefix, listed,
                   fields, bAutoFix, invoked>>

\* the statement of the try block the call has come to runs
Statement ==
    /\ pc \in 1..Len(Body(invoked))
    /\ op' = Body(invoked)[pc].kind
    /\ \E r \in {Exec(dirPrefix, bAutoFix, invoked, Session(fs, record, errs, ""), pc)} :
          Ran(r)

\* the finally clause: del self._record; del self._bAutoFix.  The deleted
\* attributes have no value any more: record and bAutoFix keep theirs, unread
Finally ==
    /\ pc = AtFinally(invoked)
    /\ pc' = 0
    /\ op' = "finally"
    /\ fields' = fields \ {"_record", "_bAutoFix"}
    /\ invoked' = [invoked EXCEPT !.nth = @ + 1]
    /\ UNCHANGED <<wildcards1, wildcards2, name, names, tree, listRev, dirPrefix, listed,
                   fs, bAutoFix, record, errs, ret>>

NextSession ==
    \/ Check
    \/ Statement
    \/ Finally

SpecSession == InitSession /\ [][NextSession]_vars
---------------------------------------------------------------------------
(* Properties of the wildcard functions *)

\* q lies strictly beneath the directory d
IsStrictDescendant(q, d) ==
    /\ Len(Segments(d)) < Len(Segments(q))
    /\ SubSeq(Segments(q), 1, Len(Segments(d))) = Segments(d)

\* the rules of W that match nm
MatchingRules(nm, W) == {i \in 1..Len(W) : match_pattern(nm, W[i])}

FirstOf(S) == CHOOSE x \in S : \A y \in S : x <= y

\* the sign of the first rule of W matching nm, FALSE when there is none
FirstMatchSign(nm, W) ==
    IF MatchingRules(nm, W) = {} THEN FALSE
    ELSE is_pattern_inc_or_exc(W[FirstOf(MatchingRules(nm, W))])

\* C1: for a valid rule list, wildcards_match returns False when no rule matches
\* the path and otherwise the sign of the first matching rule in list order,
\* however many later rules match too.
C1_FirstMatchWins ==
    (op = "wildcards_match" /\ check_patterns(wildcards1)) =>
        /\ ret.status = "ok"
        /\ ret.value = FirstMatchSign(name, wildcards1)

\* a path matched by two rules of opposite sign, resolved by the first
C1_Witness ==
    /\ op = "wildcards_match"
    /\ check_patterns(wildcards1)
    /\ \E i, j \in MatchingRules(name, wildcards1) :
          /\ i < j
          /\ is_pattern_inc_or_exc(wildcards1[i]) # is_pattern_inc_or_exc(wildcards1[j])
    /\ ret.value = is_pattern_inc_or_exc(wildcards1[FirstOf(MatchingRules(name, wildcards1))])

\* C4 (as claimed): for all valid lists A and B, A with exclusion rules
\* included, merge_wildcards(A, B) succeeds and returns A followed by B, and
\* resolving any path against it is a first-match-wins scan over A then B.
C4_MergeAlwaysConcatenates ==
    (op = "merge_wildcards" /\ check_patterns(wildcards1) /\ check_patterns(wildcards2)) =>
        /\ ret.status = "ok"
        /\ ret.value = wildcards1 \o wildcards2
        /\ \A q \in Paths :
              wildcards_match(q, ret.value) =
                  Returned(FirstMatchSign(q, wildcards1 \o wildcards2))

\* C5: for a valid list A and a list B of inclusion rules only, every path
\* matched by a rule of B resolves as excluded against deduct_wildcards(A, B),
\* and every other path resolves as it does against A.
C5_DeductExcludes ==
    ( /\ op = "deduct_wildcards"
      /\ check_patterns(wildcards1)
      /\ check_patterns(wildcards2)
      /\ \A i \in 1..Len(wildcards2) : is_pattern_inc_or_exc(wildcards2[i]) ) =>
        /\ ret.status = "ok"
        /\ \A q \in Paths :
              wildcards_match(q, ret.value) =
                  IF MatchingRules(q, wildcards2) # {}
                  THEN Returned(FALSE)
                  ELSE wildcards_match(q, wildcards1)

\* a path A alone includes, excluded after deducting B, next to a path B leaves alone
C5_Witness ==
    /\ op = "deduct_wildcards"
    /\ ret.status = "ok"
    /\ check_patterns(wildcards1)
    /\ wildcards2 # <<>>
    /\ \E q \in Paths :
          /\ MatchingRules(q, wildcards2) # {}
          /\ wildcards_match(q, wildcards1) = Returned(TRUE)
          /\ wildcards_match(q, ret.value) = Returned(FALSE)
    /\ \E q \in Paths :
          /\ MatchingRules(q, wildcards2) = {}
          /\ wildcards_match(q, ret.value) = Returned(TRUE)

\* the rule path of w has a "*" outside a final segment that is "**" or "***"
HasStrayStar(w) ==
    LET body == SliceFrom(w, 2)
        k == LastSlash(body, Len(body))
        front == SubSeq(body, 1, k)
        final == SliceFrom(body, k)
    IN  \/ Contains(front, "*")
        \/ Contains(final, "*") /\ final \notin {<<"*", "*">>, <<"*", "*", "*">>}

\* a rule the rule format rejects
Malformed(w) ==
    \/ ~StartsWith(w, Plus) /\ ~StartsWith(w, Minus)
    \/ ~StartsWith(SliceFrom(w, 2), <<"/">>)
    \/ HasStrayStar(w)

\* C6 (as claimed): validation raises WildcardError for every rule with a "*"
\* anywhere other than in a final segment that is exactly "**" or "***", and
\* for every rule without a sign or whose path does not start with "/".
C6_ValidationRejectsMalformed ==
    (op = "check_patterns" /\ \E i \in 1..Len(wildcards1) : Malformed(wildcards1[i])) =>
        ret.status = "WildcardError"

\* the contents-recursive rule of directory d, with the given sign
ContentsRule(sign, d) == sign \o (IF d = Root THEN <<>> ELSE d) \o Stars2

\* C7 (as claimed): a path matches a rule D/** iff it is a strict descendant of
\* D; D itself never matches, also when D is the root.
C7_ContentsRuleMatchesDescendantsOnly ==
    \A d \in Paths :
        (op = "wildcards_match" /\ wildcards1 = <<ContentsRule(Plus, d)>>) =>
            ret = Returned(IsStrictDescendant(name, d))

---------------------------------------------------------------------------
(* Properties of the walker *)

Range(q) == {q[i] : i \in 1..Len(q)}

\* the paths of the tree the rule list W resolves as included
Included(W) == {q \in DOMAIN tree \cup {Root} : wildcards_match(q, W) = Returned(TRUE)}

ExampleCase ==
    /\ op = "wildcards_glob"
    /\ tree \in ExampleTrees
    /\ dirPrefix = Root

\* C3 (as claimed): for ["+ /usr/**", "- /usr/src/**"] on the example tree the
\* walker yields /usr, /usr/bin and /usr/lib and does not yield /usr/src/foo.
C3_LaterExcludeCarvesHole ==
    (ExampleCase /\ wildcards1 = ExampleRules) =>
        /\ {P1(Usr), P2(Usr, Bin), P2(Usr, Lib)} \subseteq Range(ret.value)
        /\ P3(Usr, Src, Foo) \notin Range(ret.value)

\* C3 (amended): for ["+ /usr/**", "- /usr/src/**"] the walker yields /usr/bin,
\* /usr/lib, /usr/src and /usr/src/foo and does not yield /usr, the first
\* matching rule deciding; with the exclude rule first it yields /usr/bin,
\* /usr/lib and /usr/src and does not yield /usr/src/foo.
C3_FirstRuleDecidesExample ==
    /\ (ExampleCase /\ wildcards1 = ExampleRules) =>
          Range(ret.value) = {P2(Usr, Bin), P2(Usr, Lib), P2(Usr, Src), P3(Usr, Src, Foo)}
    /\ (ExampleCase /\ wildcards1 = Reverse(ExampleRules)) =>
          Range(ret.value) = {P2(Usr, Bin), P2(Usr, Lib), P2(Usr, Src)}

C3_Witness ==
    /\ ExampleCase
    /\ wildcards1 = ExampleRules
    /\ Len(ret.value) = 4

C9_PreOrderNoDuplicates ==
    (op = "wildcards_glob" /\ ret.status = "ok") =>
        \A i, j \in 1..Len(ret.value) :
            /\ (i # j) => ret.value[i] # ret.value[j]
            /\ IsStrictDescendant(ret.value[j], ret.value[i]) => i < j

\* a directory, an entry beneath it and a third path are returned
C9_Witness ==
    /\ op = "wildcards_glob"
    /\ ret.status = "ok"
    /\ Len(ret.value) >= 3
    /\ \E i, j \in 1..Len(ret.value) :
          i < j /\ IsStrictDescendant(ret.value[j], ret.value[i])

\* C10 (as claimed): for every root prefix, with or without a trailing slash,
\* wildcards_glob returns paths with exactly one leading "/", and the list it
\* returns for the identical tree audited with prefix "/".
C10_PrefixIndependent ==
    (op = "wildcards_glob" /\ check_patterns(wildcards1)) =>
        /\ \A i \in 1..Len(ret.value) :
              /\ ret.value[i][1] = "/"
              /\ Len(ret.value[i]) > 1 => ret.value[i][2] # "/"
        /\ ret = wildcards_glob(Root, wildcards1).ret

---------------------------------------------------------------------------
(* Properties of wildcards_filter *)

\* the names of nms for which wildcards_match is true, in order, once per occurrence
MatchedNames(nms, W) == SelectSeq(nms, LAMBDA n : MatchLoop(n, W, 1))

\* C20 (as claimed): wildcards_filter(names, W) returns, in the order of names
\* and once per occurrence in names, exactly the names for which
\* wildcards_match(n, W) is true, however many inclusion rules match a name.
C20_FilterAgreesWithMatch ==
    (op = "wildcards_filter" /\ ret.status = "ok") =>
        ret.value = MatchedNames(names, wildcards1)

---------------------------------------------------------------------------
(* Properties of the check primitives *)

\* the full path of the path the call checks, and what lstat finds there
CheckedPath == fn2fullfn(dirPrefix, invoked.fn)
Checked == lstat(fs, CheckedPath)

\* the kind the primitive of the call expects at the path
ExpectedKind ==
    CASE invoked.prim = "_checkDir" -> "dir"
      [] invoked.prim = "_checkFile" -> "file"
      [] invoked.prim = "_checkSymlink" -> "link"
      [] OTHER -> "none"

\* the numeric ids the owner and group arguments of the call stand for
ExpectedUid == IF invoked.owner.t = "id" THEN invoked.owner.id ELSE PwNam[invoked.owner.name]
ExpectedGid == IF invoked.group.t = "id" THEN invoked.group.id ELSE GrNam[invoked.group.name]

\* what the call of the state would report with autoFix disabled
ReportOnly ==
    IF invoked.prim = "_checkDir"
    THEN checkDir(dirPrefix, FALSE, Before, invoked.fn, invoked.mode, invoked.owner, invoked.group)
    ELSE checkFile(dirPrefix, FALSE, Before, invoked.fn, invoked.mode, invoked.owner, invoked.group)

\* C11 (as claimed): after one Directory or File check with autoFix enabled on
\* an entry of the expected kind, the entry's permission bits, owner and group
\* equal the expected values whatever was mismatched before, and the same
\* check with autoFix disabled then reports nothing.
C11_OneAutoFixRunSetsModeOwnerGroup ==
    ( /\ pc = "once"
      /\ bAutoFix
      /\ invoked.prim \in {"_checkDir", "_checkFile"}
      /\ Checked.kind = ExpectedKind ) =>
        /\ invoked.mode # NoMode => Checked.mode = invoked.mode
        /\ invoked.owner.t # "none" => (Checked.uid = ExpectedUid /\ Checked.gid = ExpectedGid)
        /\ ReportOnly.errs = <<>>

\* the path of the call exists and is not of the kind its primitive expects
WrongKind ==
    /\ invoked.prim \in {"_checkDir", "_checkFile", "_checkSymlink"}
    /\ Checked.kind \notin {"absent", ExpectedKind}

\* C15: when the path exists but is of the wrong kind, the Directory, File and
\* Symlink primitives report exactly one "is invalid" message and nothing
\* about mode, owner or target, and leave the file system as it was, with
\* autoFix enabled or not.
C15_WrongKindReportedOnceAndLeftAlone ==
    [][ (pc' # pc /\ WrongKind) =>
            /\ fs' = fs
            /\ errs' = <<Msg(invoked.fn, "is invalid.")>>
            /\ ret'.status = "ok" ]_vars

\* a Directory or File check with autoFix enabled has met an entry of the
\* wrong kind whose mode is not the expected one
C15_Witness ==
    /\ pc = "once"
    /\ bAutoFix
    /\ WrongKind
    /\ invoked.prim \in {"_checkDir", "_checkFile"}
    /\ Checked.kind # "link"
    /\ invoked.mode # NoMode
    /\ Checked.mode # invoked.mode
    /\ errs = <<Msg(invoked.fn, "is invalid.")>>

\* the root-relative paths of the entries directly in the directory the call names
DirectChildren ==
    {ToRel(dirPrefix, q) : q \in {x \in DOMAIN fs : x # Root /\ dirname(x) = Normalize(CheckedPath)}}

\* C17: the non-recursive no-redundant-entries check on a directory reports
\* one "should not exist" message for exactly the direct children whose path
\* is not in the record, nothing for claimed children or deeper descendants,
\* and changes neither the file system nor the record, with or without autoFix.
C17_SweepReportsUnclaimedDirectChildren ==
    [][ ( /\ pc' # pc
          /\ invoked.prim = "_checkNoRedundantFilesWithoutRecursion"
          /\ Checked.kind = "dir" ) =>
            /\ fs' = fs
            /\ record' = record
            /\ ret'.status = "ok"
            /\ {errs'[i] : i \in 1..Len(errs')} =
                   {Msg(c, "should not exist.") : c \in DirectChildren \ record}
            /\ Len(errs') = Cardinality(DirectChildren \ record) ]_vars

\* a sweep with autoFix enabled has met a claimed child, an unclaimed child,
\* an unclaimed .keep file and an unclaimed grandchild, and reported two paths
C17_Witness ==
    /\ pc = "once"
    /\ bAutoFix
    /\ invoked.prim = "_checkNoRedundantFilesWithoutRecursion"
    /\ invoked.fn = P1(D)
    /\ record = {P2(D, A)}
    /\ lexists(fs, fn2fullfn(dirPrefix, P3(D, A, A)))
    /\ {errs[i] : i \in 1..Len(errs)} =
           {Msg(P2(D, B), "should not exist."), Msg(P2(D, DotKeep), "should not exist.")}

\* the root-relative paths of the entries beneath the directory the call names
EntriesBeneath ==
    {ToRel(dirPrefix, q) : q \in {x \in DOMAIN fs : IsStrictDescendant(x, Normalize(CheckedPath))}}

\* the root-relative paths of the keep-list of a device-node directory call
KeepPaths == {PathJoin(invoked.fn, invoked.nodes[i].name) : i \in 1..Len(invoked.nodes)}

\* C16 (as claimed): after the device-node directory check with autoFix
\* enabled, the keep-list names being direct children of the directory, the
\* entries beneath the directory are exactly the keep-list entries, and the
\* record's paths beneath the directory are exactly the keep-list paths.
C16_DevDirHoldsExactlyTheKeepList ==
    (op = "_checkDevDirContent" /\ bAutoFix) =>
        /\ EntriesBeneath = KeepPaths
        /\ {r \in record : IsStrictDescendant(r, invoked.fn)} = KeepPaths

\* the same holds of the checks that return
ReturnedDevDirHoldsExactlyTheKeepList ==
    (op = "_checkDevDirContent" /\ bAutoFix /\ ret.status = "ok") =>
        /\ EntriesBeneath = KeepPaths
        /\ {r \in record : IsStrictDescendant(r, invoked.fn)} = KeepPaths
        /\ errs = <<>>

AnyPrimitive ==
    invoked.prim \in {"_checkDir", "_checkFile", "_checkSymlink", "_checkDevDirContent"}

TargetPath == PathJoin(dirname(CheckedPath), invoked.target)

\* the names two directories both hold
CommonNames(f, src, dst) ==
    {basename(q) : q \in ChildrenOf(f, Lookup(f, src, TRUE))}
        \cap {basename(q) : q \in ChildrenOf(f, Lookup(f, dst, TRUE))}

\* the recursive comparison of src against dst meets a conflict: a name on
\* both sides that is not a redundant link and is not a pair of real
\* directories of the same mode, owner and group, at the top or within such pairs
RECURSIVE HasConflict(_, _, _)
HasConflict(f, src, dst) ==
    \E n \in CommonNames(f, src, dst) :
        LET l == PathJoin(src, n)
            r == PathJoin(dst, n)
        IN  /\ ~(lstat(f, l).kind = "link" /\ Lookup(f, l, TRUE) = Normalize(r))
            /\ ~(lstat(f, r).kind = "link" /\ Lookup(f, r, TRUE) = Normalize(l))
            /\ \/ lstat(f, l).kind # "dir"
               \/ lstat(f, r).kind # "dir"
               \/ lstat(f, l).mode # lstat(f, r).mode
               \/ lstat(f, l).uid # lstat(f, r).uid
               \/ lstat(f, l).gid # lstat(f, r).gid
               \/ HasConflict(f, l, r)

\* a usr-merge check is to be made of a real directory against a real
\* directory, and the two are in conflict
MergeInConflict ==
    /\ invoked.prim = "_checkUsrMergeSymlink"
    /\ lstat(fs, CheckedPath).kind = "dir"
    /\ lstat(fs, TargetPath).kind = "dir"
    /\ HasConflict(fs, CheckedPath, TargetPath)

\* C14: when the comparison of the source directory against the target
\* directory meets at least one conflict, the usr-merge check reports the
\* conflict and changes nothing in the file system: nothing is moved, removed
\* or created, and the source stays a real directory.
C14_ConflictIsReportedAndNothingMoves ==
    [][ (pc' # pc /\ MergeInConflict) =>
            /\ fs' = fs
            /\ errs' = <<CommonFilesMsg(invoked.fn, invoked.target)>>
            /\ ret'.status = "ok" ]_vars

\* a usr-merge check with autoFix enabled has met two directories whose only
\* conflict lies one level down, beside an entry that could have moved, and
\* has reported it
C14_Witness ==
    /\ pc = "once"
    /\ bAutoFix
    /\ MergeInConflict
    /\ lstat(fs, PathJoin(CheckedPath, B)).kind = "dir"
    /\ lstat(fs, PathJoin(TargetPath, B)).kind = "dir"
    /\ HasConflict(fs, PathJoin(CheckedPath, B), PathJoin(TargetPath, B))
    /\ lexists(fs, PathJoin(CheckedPath, C))
    /\ errs = <<CommonFilesMsg(invoked.fn, invoked.target)>>

---------------------------------------------------------------------------
(* Properties of a check session *)

\* the session has reported that the path p does not exist
ReportedMissing(p) == \E i \in 1..Len(errs) : errs[i] = Msg(p, "does not exist.")

\* C13: in a check session with autoFix disabled, a reported "does not
\* exist" violation (a missing /boot, /home or /var) never aborts the session
\* with an exception: the checks that follow the report go on.
C13_ReportedMissingPathNeverAborts ==
    (/\ pc # 0
     /\ ~bAutoFix
     /\ \E p \in {P1(Boot), P1(Home), P1(Var)} : ReportedMissing(p))
        => ret.status = "ok"

\* C18: after a check has returned or raised, none of the session fields
\* (_bAutoFix, _errCb, _record) remains set on the object, and every check
\* invocation starts with an empty claimed-path record.
C18_NoSessionFieldOutlivesTheCheck ==
    /\ op = "finally" => fields = {}
    /\ op = "check" => record = {}

\* the path q lies under the root prefix pre, or is pre itself
Under(pre, q) == q = pre \/ StartsWith(q, IF pre = Root THEN Root ELSE pre \o Root)

\* the path q lies on the way from the root to the root prefix pre
LeadsTo(pre, q) == q = Root \/ StartsWith(pre, q \o Root)

\* the file system f under the root prefix pre, with the directories that
\* lead to pre, and what f holds beside that: the live root outside pre
Inside(pre, f) == [q \in {q \in DOMAIN f : Under(pre, q) \/ LeadsTo(pre, q)} |-> f[q]]
LiveOutside(pre, f) == [q \in {q \in DOMAIN f : ~Under(pre, q) /\ ~LeadsTo(pre, q)} |-> f[q]]

\* the statement that has just run neither looked at nor touched the live
\* root outside the root prefix: its outcome is alone, the outcome of the
\* same statement run on what the file system holds under the prefix and
\* nothing else, and what lies outside is as it was
SameDecision(alone) ==
    /\ pc' = alone.pc
    /\ ret' = (IF alone.s.exc = "" THEN Returned(<<>>) ELSE Raised(alone.s.exc))
    /\ errs' = alone.s.errs
    /\ record' = alone.s.record
    /\ Inside(dirPrefix, fs') = alone.s.fs
    /\ LiveOutside(dirPrefix, fs') = LiveOutside(dirPrefix, fs)

\* C19: every path examined or modified during a check session with root
\* prefix P lies under P, and no decision of the session depends on the
\* state of the live root outside P: each statement of the session has the
\* outcome it has when nothing but P exists, and leaves the rest as it is.
C19_SessionStaysUnderThePrefix ==
    [][ (pc \in 1..Len(Body(invoked))) =>
            SameDecision(Exec(dirPrefix, bAutoFix, invoked,
                              Session(Inside(dirPrefix, fs), record, errs, ""), pc)) ]_vars

\* C21: with autoFix disabled no statement of a check session creates,
\* removes, renames, chmods or chowns a file system entry, the usr-merge
\* check of a path that is a real directory included: the file system after
\* each statement equals the file system before it.
C21_NoAutoFixLeavesTheFileSystemAlone ==
    [][ (pc \in 1..Len(Body(invoked)) /\ ~bAutoFix) => fs' = fs ]_vars

---------------------------------------------------------------------------
(* Properties of the walker's scan of the rules at a directory *)

\* the walk listed the entries of the directory d
Listed(d) == \E k \in 1..Len(listed) : ToRel(dirPrefix, listed[k]) = d

\* the walk came to the real directory d, and the first rule that matches d
\* is rule i, an exclusion that matches in a recursive mode ("/**" or "/***")
ExcludedRecursively(d, i) ==
    /\ RelKind(d) = "dir"
    /\ Listed(dirname(d))
    /\ match_pattern(d, wildcards1[i])
    /\ ~is_pattern_inc_or_exc(wildcards1[i])
    /\ IsRecursiveRule(wildcards1[i])
    /\ \A k \in 1..(i - 1) : ~match_pattern(d, wildcards1[k])

\* rule j is an inclusion whose path lies strictly beneath d
InclusionBeneath(d, j) ==
    /\ is_pattern_inc_or_exc(wildcards1[j])
    /\ IsStrictDescendant(SliceFrom(wildcards1[j], 2), d)

\* C22: when the rule that matches the directory d in a recursive mode is an
\* exclusion, the walker goes on scanning the later rules, and a later
\* inclusion rule whose path lies strictly beneath d makes it descend into d
\* (rules ["- /a/***", "+ /a/a/a"] at the directory /a).
C22_LaterInclusionBeneathExcludedDirDescends ==
    (op = "wildcards_glob" /\ dirPrefix = Root /\ check_patterns(wildcards1)) =>
        \A d \in DOMAIN tree : \A i, j \in 1..Len(wildcards1) :
            (i < j /\ ExcludedRecursively(d, i) /\ InclusionBeneath(d, j)) => Listed(d)

---------------------------------------------------------------------------
(* Properties of the move of a usr-merge check *)

\* a usr-merge check is to be made of a real directory against a real
\* directory, and the recursive comparison of the two reports no conflict
MergeWithoutConflict ==
    /\ invoked.prim = "_checkUsrMergeSymlink"
    /\ lstat(fs, CheckedPath).kind = "dir"
    /\ lstat(fs, TargetPath).kind = "dir"
    /\ Len(compare_dir(fs, CheckedPath, TargetPath)) = 0

\* the entries beneath the directory d
Beneath(f, d) == {q \in DOMAIN f : StartsWith(q, d \o Root)}

\* where the entry q beneath src belongs beneath dst
MovedTo(q, src, dst) == dst \o SliceFrom(q, Len(src))

\* C23: when the recursive comparison of the source directory against the
\* target reports no conflict, the move that follows raises no MoveDirError
\* (the check returns): every source entry that is not a redundant link is
\* beneath the target at the same relative path, every entry the target had
\* that is not a link is as it was, nothing is left beneath the source, and
\* the checked path is a symbolic link with the expected target.
C23_MoveWithoutConflictCompletes ==
    [][ (pc' # pc /\ MergeWithoutConflict) =>
            /\ ret'.status = "ok"
            /\ \A q \in Beneath(fs, CheckedPath) :
                  ~RedundantLeft(fs, q, MovedTo(q, CheckedPath, TargetPath)) =>
                      /\ MovedTo(q, CheckedPath, TargetPath) \in DOMAIN fs'
                      /\ fs'[MovedTo(q, CheckedPath, TargetPath)] = fs[q]
            /\ \A q \in Beneath(fs, TargetPath) :
                  fs[q].kind # "link" => (q \in DOMAIN fs' /\ fs'[q] = fs[q])
            /\ Beneath(fs', CheckedPath) = {}
            /\ lstat(fs', CheckedPath).kind = "link"
            /\ lstat(fs', CheckedPath).target = invoked.target ]_vars

---------------------------------------------------------------------------
(* Properties of the record of claimed paths *)

\* the call is one of the Directory, File or Symlink primitive
BasicPrimitive == invoked.prim \in {"_checkDir", "_checkFile", "_checkSymlink"}

\* the message msg is among the messages list
ReportedIn(list, msg) == \E i \in 1..Len(list) : list[i] = msg

\* the sweep of the parent of the checked path for redundant entries, made
\* later in the session the call leaves behind
LaterSweep ==
    checkNoRedundantFilesWithoutRecursion(dirPrefix, Session(fs', record', <<>>, ""),
                                          dirname(invoked.fn), FALSE)

\* C24: the Directory, File or Symlink primitive claims the path whenever the
\* path is on disk after the existence step, of the wrong kind or with a
\* wrong mode or owner and reported or not; a path is left unclaimed only if
\* it was absent and has not been created.  So a path reported as "is
\* invalid" is not reported as "should not exist" by the later sweep of its
\* parent in the same session.
C24_ExistingPathIsClaimed ==
    [][ (pc' # pc /\ BasicPrimitive) =>
            /\ lexists(fs', CheckedPath) => invoked.fn \in record'
            /\ invoked.fn \notin record' =>
                  (~lexists(fs, CheckedPath) /\ ~lexists(fs', CheckedPath))
            /\ ReportedIn(errs', Msg(invoked.fn, "is invalid.")) =>
                  /\ LaterSweep.exc = ""
                  /\ ~ReportedIn(LaterSweep.errs, Msg(invoked.fn, "should not exist.")) ]_vars

\* a Directory, File or Symlink check has met an entry of the wrong kind, has
\* reported it as invalid and has claimed the path, next to an entry no check
\* has claimed
C24_Witness ==
    /\ pc = "once"
    /\ BasicPrimitive
    /\ WrongKind
    /\ ReportedIn(errs, Msg(invoked.fn, "is invalid."))
    /\ invoked.fn \in record
    /\ lexists(fs, PathJoin(dirname(CheckedPath), A))
    /\ P1(A) \notin record

===========================================================================
